---- MODULE Spec2Model ----
(***************************************************************************)
(* Digital Daemon MVP: the SLMU compliance engine (src/slmu.py), the       *)
(* Corpus Callosum fusion layer (src/callosum.py), and the /process        *)
(* request pipeline (src/main.py) with the triads it wires                 *)
(* (src/triads/chroma.py, prismo.py, anchor.py) and the Soul store         *)
(* (src/soul.py).                                                          *)
(*                                                                         *)
(* Python strings are sequences of one-character strings, so that          *)
(* lower(), len(), slicing and the substring test are computed.  Python    *)
(* floats are exact rationals <<n, d>> with d > 0 in lowest terms.  A      *)
(* Python exception is a result record with raised = TRUE.                 *)
(***************************************************************************)
EXTENDS Integers, Sequences, FiniteSets, TLC

VARIABLES
    slmu_in,        \* arguments of the current check_compliance_enhanced call
    slmu_out,       \* its return value ("none" before the call)
    slmu_prev,      \* return value of the previous call on the same decisive inputs
    weights,        \* CorpusCallosum.weights
    slmu_rules,     \* the rules loaded at startup (CorpusCallosum and PrismoTriad)
    n_updates,      \* number of update_weights calls so far
    fuse_in,        \* arguments of the fuse call in progress
    fuse_out,       \* its result ("none" when no call is in progress)
    souls,          \* Soul.souls, by user_id
    soul_file,      \* the contents of data/soul_state.json
    vector_store,   \* SimpleVectorStore.vectors and .metadata, by id
    vector_file,    \* the contents of data/vectors.npz
    concepts_db,    \* the ids in table concepts of data/dd.db
    interaction_log,\* the lines of data/interactions.jsonl
    rng,            \* the state of numpy's global generator
    request,        \* the last HTTP request served
    response,       \* its response
    fused,          \* what callosum.fuse returned (or raised) while serving it
    n_requests,     \* number of HTTP requests served
    last_run,       \* SleepPhase.last_run
    run_count,      \* SleepPhase.run_count
    sleep_run,      \* the run_sleep_cycle call in progress: its position and locals
    threads         \* the Soul.update calls of the worker threads: position and locals

slmu_vars == <<slmu_in, slmu_out, slmu_prev>>
callosum_vars == <<weights, slmu_rules, n_updates, fuse_in, fuse_out>>
sleep_vars == <<last_run, run_count, sleep_run>>
app_vars == <<souls, soul_file, vector_store, vector_file, concepts_db, interaction_log,
              rng, request, response, fused, n_requests, sleep_vars, threads>>
vars == <<slmu_vars, callosum_vars, app_vars>>

None == [ none |-> TRUE ]

\* the application right after startup on an empty data directory
AppIdle ==
    /\ souls = <<>>
    /\ soul_file = <<>>
    /\ vector_store = <<>>
    /\ vector_file = <<>>
    /\ concepts_db = {}
    /\ interaction_log = <<>>
    /\ rng = [ seed |-> None, drawn |-> 0 ]
    /\ request = None
    /\ response = None
    /\ fused = None
    /\ n_requests = 0
    /\ last_run = None
    /\ run_count = 0
    /\ sleep_run = None
    /\ threads = <<>>

----------------------------------------------------------------------------
(* Strings *)

UpperChars == <<"A","B","C","D","E","F","G","H","I","J","K","L","M",
                "N","O","P","Q","R","S","T","U","V","W","X","Y","Z">>
LowerChars == <<"a","b","c","d","e","f","g","h","i","j","k","l","m",
                "n","o","p","q","r","s","t","u","v","w","x","y","z">>

LowerChar(c) ==
    IF \E i \in 1..Len(UpperChars) : UpperChars[i] = c
    THEN LowerChars[CHOOSE i \in 1..Len(UpperChars) : UpperChars[i] = c]
    ELSE c

\* str.lower()
Lower(s) == [i \in 1..Len(s) |-> LowerChar(s[i])]

\* s[:n] for 0 <= n
Prefix(s, n) == SubSeq(s, 1, IF n < Len(s) THEN n ELSE Len(s))

\* needle in hay
Contains(hay, needle) ==
    \E k \in 0..(Len(hay) - Len(needle)) :
        SubSeq(hay, k + 1, k + Len(needle)) = needle

Min(a, b) == IF a <= b THEN a ELSE b

\* The words of the rule sets, of the triads' word lists and of the inputs,
\* spelled out
W ==
    [ violence |-> <<"v","i","o","l","e","n","c","e">>,
      harm |-> <<"h","a","r","m">>,
      deception |-> <<"d","e","c","e","p","t","i","o","n">>,
      theft |-> <<"t","h","e","f","t">>,
      abuse |-> <<"a","b","u","s","e">>,
      temperance |-> <<"t","e","m","p","e","r","a","n","c","e">>,
      prudence |-> <<"p","r","u","d","e","n","c","e">>,
      justice |-> <<"j","u","s","t","i","c","e">>,
      injustice |-> <<"i","n","j","u","s","t","i","c","e">>,
      fortitude |-> <<"f","o","r","t","i","t","u","d","e">>,
      Violence |-> <<"V","i","o","l","e","n","c","e">>,
      violent |-> <<"v","i","o","l","e","n","t">>,
      manipulate |-> <<"m","a","n","i","p","u","l","a","t","e">>,
      manipulation |-> <<"m","a","n","i","p","u","l","a","t","i","o","n">>,
      Manifest |-> <<"M","a","n","i","f","e","s","t">>,
      cat |-> <<"c","a","t">>,
      category |-> <<"c","a","t","e","g","o","r","y">>,
      harmful |-> <<"h","a","r","m","f","u","l">>,
      deceive |-> <<"d","e","c","e","i","v","e">>,
      help |-> <<"h","e","l","p">>,
      kill |-> <<"k","i","l","l">>,
      hurt |-> <<"h","u","r","t">>,
      I |-> <<"I">>,
      them |-> <<"t","h","e","m">>,
      obey |-> <<"o","b","e","y">>,
      honest |-> <<"h","o","n","e","s","t">>,
      wisdom |-> <<"w","i","s","d","o","m">>,
      Wisdom |-> <<"W","i","s","d","o","m">>,
      ack |-> <<"A","c","k">>,
      knowledge |-> <<"k","n","o","w","l","e","d","g","e">>,
      love |-> <<"l","o","v","e">>,
      compassion |-> <<"c","o","m","p","a","s","s","i","o","n">>,
      truth |-> <<"t","r","u","t","h">>,
      virtue |-> <<"v","i","r","t","u","e">>,
      faith |-> <<"f","a","i","t","h">>,
      hope |-> <<"h","o","p","e">>,
      charity |-> <<"c","h","a","r","i","t","y">>,
      courage |-> <<"c","o","u","r","a","g","e">>,
      patience |-> <<"p","a","t","i","e","n","c","e">>,
      kindness |-> <<"k","i","n","d","n","e","s","s">>,
      good |-> <<"g","o","o","d">>,
      great |-> <<"g","r","e","a","t">>,
      happy |-> <<"h","a","p","p","y">>,
      joy |-> <<"j","o","y">>,
      wonderful |-> <<"w","o","n","d","e","r","f","u","l">>,
      excellent |-> <<"e","x","c","e","l","l","e","n","t">>,
      amazing |-> <<"a","m","a","z","i","n","g">>,
      beautiful |-> <<"b","e","a","u","t","i","f","u","l">>,
      blessed |-> <<"b","l","e","s","s","e","d">>,
      peace |-> <<"p","e","a","c","e">>,
      kind |-> <<"k","i","n","d">>,
      understanding |-> <<"u","n","d","e","r","s","t","a","n","d","i","n","g">>,
      bad |-> <<"b","a","d">>,
      hate |-> <<"h","a","t","e">>,
      sad |-> <<"s","a","d">>,
      terrible |-> <<"t","e","r","r","i","b","l","e">>,
      awful |-> <<"a","w","f","u","l">>,
      pain |-> <<"p","a","i","n">>,
      anger |-> <<"a","n","g","e","r">>,
      fear |-> <<"f","e","a","r">>,
      anxiety |-> <<"a","n","x","i","e","t","y">>,
      worry |-> <<"w","o","r","r","y">>,
      stress |-> <<"s","t","r","e","s","s">>,
      assist |-> <<"a","s","s","i","s","t">>,
      guide |-> <<"g","u","i","d","e">>,
      learn |-> <<"l","e","a","r","n">>,
      thank |-> <<"t","h","a","n","k">>,
      grateful |-> <<"g","r","a","t","e","f","u","l">>,
      appreciate |-> <<"a","p","p","r","e","c","i","a","t","e">>,
      will |-> <<"w","i","l","l">>,
      use |-> <<"u","s","e">>,
      and |-> <<"a","n","d">>,
      seek |-> <<"s","e","e","k">>,
      hello |-> <<"h","e","l","l","o">>,
      world |-> <<"w","o","r","l","d">>,
      Tom |-> <<"T","o","m">>,
      am |-> <<"a","m">>,
      seeking |-> <<"s","e","e","k","i","n","g">>,
      to |-> <<"t","o">>,
      achieve |-> <<"a","c","h","i","e","v","e">>,
      my |-> <<"m","y">>,
      goals |-> <<"g","o","a","l","s">> ]

----------------------------------------------------------------------------
(* Floats as exact rationals *)

RECURSIVE Gcd(_, _)
Gcd(a, b) == IF b = 0 THEN a ELSE Gcd(b, a % b)

Abs(x) == IF x < 0 THEN -x ELSE x

Rat(n, d) ==
    LET g == Gcd(Abs(n), Abs(d))
        s == IF d < 0 THEN -1 ELSE 1
    IN  <<(s * n) \div g, (s * d) \div g>>

RAdd(a, b) == Rat(a[1] * b[2] + b[1] * a[2], a[2] * b[2])
RMul(a, b) == Rat(a[1] * b[1], a[2] * b[2])
RDiv(a, b) == Rat(a[1] * b[2], a[2] * b[1])
RLt(a, b)  == a[1] * b[2] < b[1] * a[2]
RLe(a, b)  == a[1] * b[2] <= b[1] * a[2]
RMin(a, b) == IF RLe(a, b) THEN a ELSE b

Zero == Rat(0, 1)
One  == Rat(1, 1)
Half == Rat(1, 2)

\* np.clip(x, lo, hi)
Clip(x, lo, hi) == IF RLt(x, lo) THEN lo ELSE IF RLt(hi, x) THEN hi ELSE x

----------------------------------------------------------------------------
(* src/slmu.py *)

MinLemmaLen == 3
RootMinLen == 5
RootTrim == 3
MinRootLen == 4
MaxCommandPatterns == 3

w_empty == <<>>

\* a concept of enhanced Prismo (a dict) and of basic Prismo (a plain string)
DictConcept(name, lemma) == [ kind |-> "dict", name |-> name, lemma |-> lemma ]
StrConcept(name)         == [ kind |-> "str",  name |-> name, lemma |-> w_empty ]

\* get_default_rules(): no 'emotion_validation' key
get_default_rules ==
    [ prohibited_concepts |-> <<W.violence, W.harm, W.deception, W.theft, W.abuse>>,
      required_virtues    |-> <<W.temperance, W.prudence, W.justice, W.fortitude>>,
      has_emotion_validation |-> FALSE,
      warning_thresholds  |-> <<>> ]

\* Mutant: the root_len >= 4 floor is dropped
concept_lemma_match_no_floor(lemma, prohibited_lower) ==
    IF lemma = prohibited_lower THEN TRUE
    ELSE IF Len(lemma) >= RootMinLen /\ Len(prohibited_lower) >= RootMinLen
         THEN LET root_len == Min(Len(lemma), Len(prohibited_lower)) - RootTrim
              IN  Prefix(lemma, root_len) = Prefix(prohibited_lower, root_len)
         ELSE FALSE

\* the elif-chain deciding one (concept lemma, prohibited) pair
concept_lemma_match(lemma, prohibited_lower) ==
    IF lemma = prohibited_lower THEN TRUE
    ELSE IF Len(lemma) >= RootMinLen /\ Len(prohibited_lower) >= RootMinLen
         THEN LET root_len == Min(Len(lemma), Len(prohibited_lower)) - RootTrim
              IN  root_len >= MinRootLen
                  /\ Prefix(lemma, root_len) = Prefix(prohibited_lower, root_len)
         ELSE FALSE

\* the elif-chain deciding one (predicate lemma, prohibited) pair
predicate_lemma_match(predicate_lemma, prohibited_lower) ==
    IF predicate_lemma = prohibited_lower THEN TRUE
    ELSE IF Len(predicate_lemma) >= RootMinLen /\ Len(prohibited_lower) >= RootMinLen
         THEN LET root_len == Min(Len(predicate_lemma), Len(prohibited_lower)) - RootTrim
              IN  root_len >= MinRootLen
                  /\ Prefix(predicate_lemma, root_len) = Prefix(prohibited_lower, root_len)
         ELSE FALSE

\* 1. for concept in concepts: ... for prohibited in prohibited_concepts: ...
RECURSIVE concept_loop(_, _, _, _, _)
concept_loop(concepts, prohibited_concepts, i, j, violations) ==
    IF i > Len(concepts) THEN violations
    ELSE LET concept == concepts[i]
             lemma   == Lower(concept.lemma)
         IN  IF Len(lemma) < MinLemmaLen \/ j > Len(prohibited_concepts)
             THEN concept_loop(concepts, prohibited_concepts, i + 1, 1, violations)
             ELSE LET prohibited == prohibited_concepts[j]
                  IN  IF concept_lemma_match(lemma, Lower(prohibited))
                      THEN concept_loop(concepts, prohibited_concepts, i, j + 1,
                              Append(violations,
                                  [ type         |-> "prohibited_concept_lemma",
                                    concept      |-> concept.name,
                                    lemma        |-> lemma,
                                    matched_rule |-> prohibited,
                                    severity     |-> "high" ]))
                      ELSE concept_loop(concepts, prohibited_concepts, i, j + 1, violations)

\* 2. for rel in relationships: ... for prohibited in prohibited_concepts: ...
RECURSIVE relationship_loop(_, _, _, _, _)
relationship_loop(relationships, prohibited_concepts, i, j, violations) ==
    IF i > Len(relationships) THEN violations
    ELSE LET rel == relationships[i]
             predicate_lemma == Lower(rel.predicate_lemma)
         IN  IF Len(predicate_lemma) < MinLemmaLen \/ j > Len(prohibited_concepts)
             THEN relationship_loop(relationships, prohibited_concepts, i + 1, 1, violations)
             ELSE LET prohibited == prohibited_concepts[j]
                  IN  IF predicate_lemma_match(predicate_lemma, Lower(prohibited))
                      THEN relationship_loop(relationships, prohibited_concepts, i, j + 1,
                              Append(violations,
                                  [ type            |-> "prohibited_relationship",
                                    subject         |-> rel.subject,
                                    predicate       |-> rel.predicate,
                                    predicate_lemma |-> predicate_lemma,
                                    object          |-> rel.object,
                                    matched_rule    |-> prohibited,
                                    severity        |-> "high" ]))
                      ELSE relationship_loop(relationships, prohibited_concepts, i, j + 1,
                              violations)

\* Mutant: the harm patterns are skipped once a violation has been recorded
harm_loop_early_exit(harm_patterns, violations) ==
    IF violations # <<>> THEN violations
    ELSE [ k \in 1..Len(harm_patterns) |->
             [ type     |-> "harm_pattern_detected",
               text     |-> harm_patterns[k].text,
               lemma    |-> harm_patterns[k].lemma,
               severity |-> "high" ] ]

\* 3. for harm in harm_patterns: violations.append(...)
harm_loop(harm_patterns, violations) ==
    violations \o [ k \in 1..Len(harm_patterns) |->
                      [ type     |-> "harm_pattern_detected",
                        text     |-> harm_patterns[k].text,
                        lemma    |-> harm_patterns[k].lemma,
                        severity |-> "high" ] ]

\* 4. required virtues found in the text, in a concept name, or among the lemmas
required_present(text, concepts, required_virtues) ==
    LET concept_lemmas == { Lower(concepts[i].lemma) : i \in 1..Len(concepts) }
        text_lower == Lower(text)
        present(virtue) ==
            LET virtue_lower == Lower(virtue)
            IN  \/ Contains(text_lower, virtue_lower)
                \/ \E i \in 1..Len(concepts) :
                       Contains(Lower(concepts[i].name), virtue_lower)
                \/ virtue_lower \in concept_lemmas
    IN  SelectSeq(required_virtues, present)

\* a score equal to its threshold is reported too
check_emotion_thresholds_at_threshold(emotions, warning_thresholds) ==
    LET all_scores == IF "all_scores" \in emotions.keys THEN emotions.all_scores
                      ELSE <<>>
        score(emotion) == IF emotion \in DOMAIN all_scores THEN all_scores[emotion]
                          ELSE Zero
        exceeded(pair) == RLe(pair[2], score(pair[1]))
        hits == SelectSeq(warning_thresholds, exceeded)
    IN  [ k \in 1..Len(hits) |->
            [ type      |-> "emotion_threshold_exceeded",
              emotion   |-> hits[k][1],
              score     |-> score(hits[k][1]),
              threshold |-> hits[k][2],
              severity  |-> "medium" ] ]

\* _check_emotion_thresholds(emotions, emotion_rules); emotions is a dict here.
\* warning_thresholds is the ordered dict as a sequence of <<emotion, threshold>>;
\* all_scores is a function from emotion names to scores.
check_emotion_thresholds(emotions, warning_thresholds) ==
    LET all_scores == IF "all_scores" \in emotions.keys THEN emotions.all_scores
                      ELSE <<>>
        score(emotion) == IF emotion \in DOMAIN all_scores THEN all_scores[emotion]
                          ELSE Zero
        exceeded(pair) == RLt(pair[2], score(pair[1]))
        hits == SelectSeq(warning_thresholds, exceeded)
    IN  [ k \in 1..Len(hits) |->
            [ type      |-> "emotion_threshold_exceeded",
              emotion   |-> hits[k][1],
              score     |-> score(hits[k][1]),
              threshold |-> hits[k][2],
              severity  |-> "medium" ] ]

NoEmotions == [ kind |-> "none" ]
FloatSentiment(value) == [ kind |-> "float", value |-> value ]

\* bool(emotions): None, a float (basic Chroma) or a dict (enhanced Chroma)
Truthy(emotions) ==
    CASE emotions.kind = "none"  -> FALSE
      [] emotions.kind = "float" -> emotions.value # Zero
      [] emotions.kind = "dict"  -> emotions.keys # {}

AttributeError == [ raised |-> TRUE, error |-> "AttributeError" ]

\* Mutant: only lemma violations decide compliance
determine_compliance_lemma_only(violations) ==
    \A k \in 1..Len(violations) : violations[k].type # "prohibited_concept_lemma"

\* compliant = len(violations) == 0
determine_compliance(violations) == Len(violations) = 0

\* Mutant: the raw text is scanned for prohibited strings too, as the deprecated
\* check_compliance does
check_compliance_text_scan(text, concepts, relationships, ethical_matches, emotions, rules) ==
    LET prohibited_concepts == rules.prohibited_concepts
        required_virtues    == rules.required_virtues
        v1 == concept_loop(concepts, prohibited_concepts, 1, 1, <<>>)
        v2 == relationship_loop(relationships, prohibited_concepts, 1, 1, v1)
        harm_patterns == ethical_matches.harm_patterns
        v3 == harm_loop(harm_patterns, v2)
        text_lower == Lower(text)
        in_text(prohibited) == prohibited # <<>> /\ Contains(text_lower, Lower(prohibited))
        found == SelectSeq(prohibited_concepts, in_text)
        violations == v3 \o [ k \in 1..Len(found) |->
                                [ type |-> "prohibited_concept_text",
                                  matched_rule |-> found[k],
                                  severity |-> "high" ] ]
        validate == Truthy(emotions) /\ rules.has_emotion_validation
        w1 == IF validate
              THEN check_emotion_thresholds(emotions, rules.warning_thresholds)
              ELSE <<>>
        command_patterns == ethical_matches.command_patterns
        warnings == IF Len(command_patterns) > MaxCommandPatterns
                    THEN Append(w1, [ type     |-> "excessive_commands",
                                      count    |-> Len(command_patterns),
                                      severity |-> "medium" ])
                    ELSE w1
        ethical_patterns == ethical_matches.ethical_patterns
    IN  \* concept.get(...) on a str concept (basic Prismo) raises at the first concept
        IF \E i \in 1..Len(concepts) : concepts[i].kind = "str"
        THEN AttributeError
        \* emotions.get('all_scores') on a float raises
        ELSE IF validate /\ emotions.kind = "float"
        THEN AttributeError
        ELSE [ raised    |-> FALSE,
               compliant |-> determine_compliance(violations),
               violations |-> violations,
               warnings   |-> warnings,
               required_values_present |-> required_present(text, concepts, required_virtues),
               ethical_patterns_found  |-> Len(ethical_patterns),
               harm_patterns_found     |-> Len(harm_patterns),
               command_patterns_found  |-> Len(command_patterns) ]

check_compliance_enhanced(text, concepts, relationships, ethical_matches, emotions, rules) ==
    LET prohibited_concepts == rules.prohibited_concepts
        required_virtues    == rules.required_virtues
        v1 == concept_loop(concepts, prohibited_concepts, 1, 1, <<>>)
        v2 == relationship_loop(relationships, prohibited_concepts, 1, 1, v1)
        harm_patterns == ethical_matches.harm_patterns
        violations == harm_loop(harm_patterns, v2)
        validate == Truthy(emotions) /\ rules.has_emotion_validation
        w1 == IF validate
              THEN check_emotion_thresholds(emotions, rules.warning_thresholds)
              ELSE <<>>
        command_patterns == ethical_matches.command_patterns
        warnings == IF Len(command_patterns) > MaxCommandPatterns
                    THEN Append(w1, [ type     |-> "excessive_commands",
                                      count    |-> Len(command_patterns),
                                      severity |-> "medium" ])
                    ELSE w1
        ethical_patterns == ethical_matches.ethical_patterns
    IN  \* concept.get(...) on a str concept (basic Prismo) raises at the first concept
        IF \E i \in 1..Len(concepts) : concepts[i].kind = "str"
        THEN AttributeError
        \* emotions.get('all_scores') on a float raises
        ELSE IF validate /\ emotions.kind = "float"
        THEN AttributeError
        ELSE [ raised    |-> FALSE,
               compliant |-> determine_compliance(violations),
               violations |-> violations,
               warnings   |-> warnings,
               required_values_present |-> required_present(text, concepts, required_virtues),
               ethical_patterns_found  |-> Len(ethical_patterns),
               harm_patterns_found     |-> Len(harm_patterns),
               command_patterns_found  |-> Len(command_patterns) ]

----------------------------------------------------------------------------
(* src/callosum.py *)

\* A triad output dict is a record holding, for each key, the value that
\* dict.get(key, default) yields (every key but 'sentiment' is read with one
\* default only).  'sentiment' is read with three different defaults, so it is
\* tagged: kind "missing", "float" (basic Chroma) or "dict" (enhanced Chroma).
MissingSentiment == [ kind |-> "missing" ]

\* CorpusCallosum.__init__: default weights 0.33 / 0.34 / 0.33
default_weights == [ chroma |-> Rat(33, 100), prismo |-> Rat(34, 100), anchor |-> Rat(33, 100) ]

Triads == <<"chroma", "prismo", "anchor">>

\* sum(self.weights.values())
total_weight(w) == RAdd(RAdd(w.chroma, w.prismo), w.anchor)

\* sentiment = chroma.get('sentiment', {}); score if a dict, else 0.5
sentiment_score(chroma) ==
    LET sentiment == chroma.sentiment
    IN  IF sentiment.kind = "dict"
        THEN IF "score" \in sentiment.keys THEN sentiment.score ELSE Half
        ELSE Half

\* min(1.0, (token_count / 20.0) * (pos_diversity / 5.0)), 0.5 without features
richness_score(prismo) ==
    LET linguistic == prismo.linguistic_features
    IN  IF linguistic.present
        THEN RMin(One, RMul(Rat(linguistic.token_count, 20),
                            Rat(linguistic.pos_diversity, 5)))
        ELSE Half

\* min(1.0, (concept_count + entity_count) / 10.0)
concept_score(prismo) == RMin(One, Rat(prismo.concept_count + prismo.entity_count, 10))

prismo_score(prismo) ==
    RAdd(RMul(richness_score(prismo), Half), RMul(concept_score(prismo), Half))

\* Mutant: a failed log earns nothing
anchor_score_no_credit(anchor) == IF anchor.interaction_logged THEN One ELSE Zero

\* 1.0 if anchor.get('interaction_logged', False) else 0.5
anchor_score(anchor) == IF anchor.interaction_logged THEN One ELSE Half

\* Mutant: the result is returned unclipped
clip_coherence_missing(coherence) == coherence

\* float(np.clip(coherence, 0.0, 1.0))
clip_coherence(coherence) == Clip(coherence, Zero, One)

\* CorpusCallosum._calculate_coherence
calculate_coherence(chroma, prismo, anchor, w) ==
    LET scores == << RMul(sentiment_score(chroma), w.chroma),
                     RMul(prismo_score(prismo), w.prismo),
                     RMul(anchor_score(anchor), w.anchor) >>
        coherence == RDiv(RAdd(RAdd(scores[1], scores[2]), scores[3]), total_weight(w))
    IN  clip_coherence(coherence)

\* Mutant: only harm-pattern matches close the gate
ethical_gate_harm_only(slmu_result) == slmu_result.harm_patterns_found > 0

\* if not slmu_result.get('compliant', False): reject
ethical_gate_rejects(slmu_result) == ~slmu_result.compliant

\* CorpusCallosum.fuse.  'calls' lists the functions executed by the call.
fuse(chroma_output, prismo_output, anchor_output, w, rules) ==
    LET sentiment == chroma_output.sentiment
        emotions == IF sentiment.kind = "missing" THEN NoEmotions ELSE sentiment
        slmu_result ==
            check_compliance_enhanced(prismo_output.text, prismo_output.concepts,
                                      prismo_output.relationships,
                                      prismo_output.ethical_patterns, emotions, rules)
    IN  IF slmu_result.raised
        THEN [ raised |-> TRUE, error |-> slmu_result.error,
               calls |-> <<"check_compliance_enhanced">> ]
        ELSE IF ethical_gate_rejects(slmu_result)
        THEN [ raised    |-> FALSE,
               success   |-> FALSE,
               reason    |-> "Ethical violation",
               details   |-> [ violations |-> slmu_result.violations,
                               warnings   |-> slmu_result.warnings ],
               coherence |-> Zero,
               calls     |-> <<"check_compliance_enhanced">> ]
        ELSE [ raised    |-> FALSE,
               success   |-> TRUE,
               coherence |-> calculate_coherence(chroma_output, prismo_output,
                                                 anchor_output, w),
               sentiment |-> IF sentiment.kind = "missing"
                             THEN FloatSentiment(Half) ELSE sentiment,
               concepts  |-> prismo_output.concepts,
               entities  |-> prismo_output.entities,
               relationships |-> prismo_output.relationships,
               linguistic_features |-> prismo_output.linguistic_features,
               ethical_patterns |-> prismo_output.ethical_patterns,
               slmu_compliance |-> slmu_result,
               response  |-> anchor_output.response,
               weights_used |-> w,
               triad_outputs |->
                   [ chroma_vector_id |-> chroma_output.vector_id,
                     chroma_embedding_dim |-> chroma_output.embedding_dim,
                     chroma_similar_count |-> chroma_output.similar_count,
                     prismo_concept_count |-> prismo_output.concept_count,
                     prismo_entity_count  |-> prismo_output.entity_count,
                     prismo_sentence_count |-> prismo_output.sentence_count,
                     anchor_interaction_count |-> anchor_output.interaction_count ],
               calls     |-> <<"check_compliance_enhanced", "_calculate_coherence">> ]

learning_rate == Rat(5, 100)
weight_floor  == Rat(1, 10)
weight_cap    == Rat(6, 10)

\* the clipped weights are stored as they are
update_weights_no_renormalize(w, performance_feedback) ==
    [ triad \in { Triads[i] : i \in 1..Len(Triads) } |->
        IF triad \in DOMAIN performance_feedback
        THEN Clip(RAdd(w[triad], RMul(Rat(performance_feedback[triad], 1), learning_rate)),
                  weight_floor, weight_cap)
        ELSE w[triad] ]

\* CorpusCallosum.update_weights; performance_feedback maps some sources to deltas
update_weights(w, performance_feedback) ==
    LET adjusted(triad) ==
            IF triad \in DOMAIN performance_feedback
            THEN Clip(RAdd(w[triad], RMul(Rat(performance_feedback[triad], 1), learning_rate)),
                      weight_floor, weight_cap)
            ELSE w[triad]
        clipped == [ chroma |-> adjusted("chroma"), prismo |-> adjusted("prismo"),
                     anchor |-> adjusted("anchor") ]
        total == total_weight(clipped)
    IN  [ chroma |-> RDiv(clipped.chroma, total), prismo |-> RDiv(clipped.prismo, total),
          anchor |-> RDiv(clipped.anchor, total) ]

----------------------------------------------------------------------------
(* Inputs of check_compliance_enhanced *)

MaxConcepts == 2
MaxRelationships == 1
MaxHarm == 2

\* sequences over S of length at most n
SeqsUpTo(S, n) == UNION { [1..k -> S] : k \in 0..n }

Relationship(subject, predicate, predicate_lemma, object) ==
    [ subject |-> subject, predicate |-> predicate,
      predicate_lemma |-> predicate_lemma, object |-> object ]
Match(text, lemma) == [ text |-> text, lemma |-> lemma ]

DictSentiment(score, all_scores) ==
    [ kind |-> "dict", keys |-> {"label", "score", "all_scores"},
      score |-> score, all_scores |-> all_scores ]
EmptyDict == [ kind |-> "dict", keys |-> {}, score |-> Half, all_scores |-> <<>> ]

ConceptPool == { DictConcept(W.Violence, W.Violence),
                 DictConcept(W.manipulate, W.manipulate),
                 DictConcept(W.injustice, W.injustice) }
RelationshipPool == { Relationship(W.I, W.manipulate, W.manipulate, W.them),
                      Relationship(W.I, W.help, W.help, W.them) }
HarmPool == { Match(W.kill, W.kill), Match(W.hurt, W.hurt) }
ProhibitedPool == { <<W.violence, W.harm>>, <<W.manipulation, W.category>> }

\* What the compliance decision is said not to depend on
Profile(text, emotions, virtues, validation, thresholds, ncommands, nethical) ==
    [ text |-> text, emotions |-> emotions, required_virtues |-> virtues,
      has_emotion_validation |-> validation, warning_thresholds |-> thresholds,
      command_patterns |-> [ k \in 1..ncommands |-> Match(W.obey, W.obey) ],
      ethical_patterns |-> [ k \in 1..nethical |-> Match(W.honest, W.honest) ] ]

Angry == DictSentiment(Rat(9, 10), ("anger" :> Rat(9, 10)))

PlainProfile ==
    Profile(w_empty, NoEmotions, get_default_rules.required_virtues, FALSE, <<>>, 0, 0)

Profiles ==
    { PlainProfile,
      Profile(W.justice, NoEmotions, get_default_rules.required_virtues, FALSE, <<>>, 0, 0),
      Profile(w_empty, Angry, <<>>, FALSE, <<>>, 0, 1),
      Profile(w_empty, NoEmotions, <<W.justice>>, FALSE, <<>>, MaxCommandPatterns + 1, 0),
      Profile(W.Violence, Angry, <<W.violence>>, TRUE, << <<"anger", Rat(7, 10)>> >>,
              MaxCommandPatterns + 1, 1),
      \* a score above its threshold, one equal to it, and an emotion without a score
      Profile(w_empty,
              DictSentiment(Rat(9, 10), ("anger" :> Rat(9, 10)) @@ ("fear" :> Rat(3, 5))),
              <<>>, TRUE,
              << <<"anger", Rat(7, 10)>>, <<"fear", Rat(3, 5)>>, <<"sadness", Rat(1, 2)>> >>,
              0, 0),
      \* thresholds, and a sentiment dict that holds no scores
      Profile(w_empty, EmptyDict, <<>>, TRUE, << <<"anger", Rat(7, 10)>> >>, 0, 0) }

SlmuInput(concepts, relationships, harm_patterns, prohibited, profile) ==
    [ text |-> profile.text,
      concepts |-> concepts,
      relationships |-> relationships,
      ethical_matches |-> [ harm_patterns    |-> harm_patterns,
                            ethical_patterns |-> profile.ethical_patterns,
                            command_patterns |-> profile.command_patterns ],
      emotions |-> profile.emotions,
      rules |-> [ prohibited_concepts    |-> prohibited,
                  required_virtues       |-> profile.required_virtues,
                  has_emotion_validation |-> profile.has_emotion_validation,
                  warning_thresholds     |-> profile.warning_thresholds ] ]

NoCall == [ called |-> FALSE ]

\* The callosum as constructed, no call made
CallosumIdle ==
    /\ weights = default_weights
    /\ slmu_rules = get_default_rules
    /\ n_updates = 0
    /\ fuse_in = NoCall
    /\ fuse_out = NoCall

SlmuIdle ==
    /\ slmu_in = NoCall
    /\ slmu_out = NoCall
    /\ slmu_prev = NoCall

CallSlmu(in) ==
    check_compliance_enhanced(in.text, in.concepts, in.relationships,
                              in.ethical_matches, in.emotions, in.rules)

InitSlmu ==
    /\ \E concepts \in SeqsUpTo(ConceptPool, MaxConcepts),
          relationships \in SeqsUpTo(RelationshipPool, MaxRelationships),
          harm_patterns \in SeqsUpTo(HarmPool, MaxHarm),
          prohibited \in ProhibitedPool :
            slmu_in = SlmuInput(concepts, relationships, harm_patterns, prohibited,
                                PlainProfile)
    /\ slmu_out = NoCall
    /\ slmu_prev = NoCall
    /\ CallosumIdle
    /\ AppIdle

\* one call of check_compliance_enhanced
Check ==
    /\ slmu_out = NoCall
    /\ slmu_out' = CallSlmu(slmu_in)
    /\ UNCHANGED <<slmu_in, slmu_prev>>
    /\ UNCHANGED callosum_vars
    /\ UNCHANGED app_vars

\* a second call: same concepts, relationships, harm patterns and prohibited
\* concepts; other text, emotions, virtues, thresholds, command and ethical matches
Recheck ==
    /\ slmu_out # NoCall
    /\ slmu_prev = NoCall
    /\ \E profile \in Profiles :
         /\ slmu_in' = SlmuInput(slmu_in.concepts, slmu_in.relationships,
                                 slmu_in.ethical_matches.harm_patterns,
                                 slmu_in.rules.prohibited_concepts, profile)
         /\ slmu_out' = CallSlmu(slmu_in')
    /\ slmu_prev' = slmu_out
    /\ UNCHANGED callosum_vars
    /\ UNCHANGED app_vars

NextSlmu == Check \/ Recheck

SpecSlmu == InitSlmu /\ [][NextSlmu]_vars

----------------------------------------------------------------------------
(* One lemma against one prohibited string *)

BaseWords == { W.manipulate, W.manipulation, W.Manifest, W.Violence, W.violence,
               W.violent, W.cat, W.category, W.harm, W.harmful, W.deception,
               W.deceive }

Words == { Prefix(w, n) : w \in BaseWords, n \in 0..12 }

InitMatch ==
    /\ \E lemma \in Words, prohibited \in Words, kind \in {"concept", "relationship"} :
         slmu_in = SlmuInput(
            IF kind = "concept" THEN <<DictConcept(lemma, lemma)>> ELSE <<>>,
            IF kind = "relationship"
               THEN <<Relationship(W.I, lemma, lemma, W.them)>> ELSE <<>>,
            <<>>, <<prohibited>>, PlainProfile)
    /\ slmu_out = NoCall
    /\ slmu_prev = NoCall
    /\ CallosumIdle
    /\ AppIdle

NextMatch == Check

SpecMatch == InitMatch /\ [][NextMatch]_vars

----------------------------------------------------------------------------
(* Calls of CorpusCallosum.fuse and CorpusCallosum.update_weights *)

MaxUpdates == 1

\* a rule set file with the optional emotion_validation section
emotion_rules ==
    [ get_default_rules EXCEPT
        !.has_emotion_validation = TRUE,
        !.warning_thresholds = << <<"anger", Rat(7, 10)>> >> ]

RuleSets == { get_default_rules, emotion_rules }

NoMatches == [ harm_patterns |-> <<>>, ethical_patterns |-> <<>>, command_patterns |-> <<>> ]
NoFeatures == [ present |-> FALSE, token_count |-> 0, pos_diversity |-> 0 ]
Features(token_count, pos_diversity) ==
    [ present |-> TRUE, token_count |-> token_count, pos_diversity |-> pos_diversity ]

PrismoOutput(concepts, relationships, matches, features, concept_count, entity_count) ==
    [ text |-> w_empty, concepts |-> concepts, relationships |-> relationships,
      ethical_patterns |-> matches, linguistic_features |-> features,
      entities |-> <<>>, concept_count |-> concept_count,
      entity_count |-> entity_count, sentence_count |-> 0 ]

ChromaOutput(sentiment) ==
    [ sentiment |-> sentiment, vector_id |-> "v", embedding_dim |-> 0, similar_count |-> 0 ]

AnchorOutput(logged) ==
    [ interaction_logged |-> logged, response |-> W.ack, interaction_count |-> 0 ]

\* Sentiment confidences, inside and outside [0, 1]
Scores == { Rat(-1, 1), Zero, One, Rat(2, 1) }

Sentiments ==
    { MissingSentiment, FloatSentiment(Half) }
    \cup { DictSentiment(score, ("anger" :> Rat(9, 10))) : score \in Scores }

PrismoOutputs ==
    { \* enhanced Prismo, compliant
      PrismoOutput(<<DictConcept(W.wisdom, W.wisdom)>>, <<>>, NoMatches, Features(6, 4), 1, 0),
      \* all-maximal
      PrismoOutput(<<DictConcept(W.wisdom, W.wisdom)>>, <<>>, NoMatches, Features(100, 10), 20, 5),
      \* all-zero
      PrismoOutput(<<>>, <<>>, NoMatches, Features(0, 0), 0, 0),
      \* a prohibited concept lemma and too many commands
      PrismoOutput(<<DictConcept(W.Violence, W.Violence)>>, <<>>,
                   [ NoMatches EXCEPT !.command_patterns =
                        [ k \in 1..(MaxCommandPatterns + 1) |-> Match(W.obey, W.obey) ] ],
                   Features(6, 4), 1, 0),
      \* a prohibited predicate only
      PrismoOutput(<<>>, <<Relationship(W.I, W.harm, W.harm, W.them)>>, NoMatches,
                   Features(6, 4), 0, 0),
      \* a harm pattern only
      PrismoOutput(<<>>, <<>>, [ NoMatches EXCEPT !.harm_patterns = <<Match(W.kill, W.kill)>> ],
                   Features(6, 4), 0, 0),
      \* basic Prismo: concepts are plain strings, nothing else
      PrismoOutput(<<StrConcept(W.Wisdom)>>, <<>>, NoMatches, NoFeatures, 1, 0),
      \* basic Prismo without concepts
      PrismoOutput(<<>>, <<>>, NoMatches, NoFeatures, 0, 0) }

\* feedback deltas; delta * 0.05 moves a weight past either clip bound
Deltas == { -6, 6 }

\* empty, partial and full mappings, also with a source that is no triad
Feedbacks ==
    UNION { [ sources -> Deltas ] :
              sources \in SUBSET { "chroma", "prismo", "anchor", "sleep" } }

InitFuse ==
    /\ SlmuIdle
    /\ weights = default_weights
    /\ slmu_rules \in RuleSets
    /\ n_updates = 0
    /\ fuse_in = NoCall
    /\ fuse_out = NoCall
    /\ AppIdle

\* callosum.fuse(chroma_output, prismo_output, anchor_output) is called
Fuse ==
    /\ fuse_out = NoCall
    /\ \E sentiment \in Sentiments, prismo_output \in PrismoOutputs, logged \in BOOLEAN :
         /\ fuse_in' = [ chroma_output |-> ChromaOutput(sentiment),
                         prismo_output |-> prismo_output,
                         anchor_output |-> AnchorOutput(logged) ]
         /\ fuse_out' = fuse(fuse_in'.chroma_output, fuse_in'.prismo_output,
                             fuse_in'.anchor_output, weights, slmu_rules)
    /\ UNCHANGED <<weights, slmu_rules, n_updates>>
    /\ UNCHANGED slmu_vars
    /\ UNCHANGED app_vars

\* the call returns (or raises) to its caller
FuseReturn ==
    /\ fuse_out # NoCall
    /\ fuse_in' = NoCall
    /\ fuse_out' = NoCall
    /\ UNCHANGED <<weights, slmu_rules, n_updates>>
    /\ UNCHANGED slmu_vars
    /\ UNCHANGED app_vars

\* callosum.update_weights(performance_feedback)
UpdateWeights ==
    /\ fuse_out = NoCall
    /\ n_updates < MaxUpdates
    /\ \E performance_feedback \in Feedbacks :
         weights' = update_weights(weights, performance_feedback)
    /\ n_updates' = n_updates + 1
    /\ UNCHANGED <<slmu_rules, fuse_in, fuse_out>>
    /\ UNCHANGED slmu_vars
    /\ UNCHANGED app_vars

NextFuse == Fuse \/ FuseReturn \/ UpdateWeights

SpecFuse == InitFuse /\ [][NextFuse]_vars

----------------------------------------------------------------------------
(* src/triads/chroma.py, src/triads/prismo.py, src/triads/anchor.py *)

\* The request texts, by name: a text is the sequence of its whitespace-separated
\* words; the state holds the name of a text and the triads read its words.
TextWords ==
    [ violence_goals |-> <<W.I, W.will, W.use, W.violence, W.and, W.harm, W.to,
                           W.achieve, W.my, W.goals>>,
      seeking_wisdom |-> <<W.I, W.am, W.seeking, W.wisdom, W.and, W.understanding>>,
      hello_world    |-> <<W.hello, W.world>>,
      violence_tom   |-> <<W.Violence, W.Tom>>,
      bad_harm       |-> <<W.bad, W.harm>> ]

Texts == DOMAIN TextWords

positive_words == { W.good, W.great, W.love, W.happy, W.joy, W.wonderful, W.excellent, W.amazing, W.beautiful, W.blessed, W.peace, W.kind, W.compassion, W.wisdom, W.understanding }
negative_words == { W.bad, W.hate, W.sad, W.terrible, W.awful, W.pain, W.anger, W.fear, W.anxiety, W.worry, W.stress }

\* ChromaTriad._simple_sentiment
simple_sentiment(text) ==
    LET split == TextWords[text]
        words == { Lower(split[i]) : i \in 1..Len(split) }
        pos_count == Cardinality(words \cap positive_words)
        neg_count == Cardinality(words \cap negative_words)
    IN  IF pos_count + neg_count = 0 THEN Half
        ELSE Rat(pos_count, pos_count + neg_count)

\* ChromaTriad._text_to_color: the unit vector drawn from the generator seeded
\* with hash(text), scaled by the sentiment; one value per (text, sentiment)
text_to_color(text, sentiment) == [ seed |-> text, sentiment |-> sentiment ]

\* f"chroma_{user_id}_{abs(hash(text)) % 1000000}"; the texts hash apart
vector_id_of(text, user_id) == <<"chroma", user_id, text>>

\* the old metadata of an id is kept, only the vector is replaced
upsert_keeps_metadata(store, id, vector, metadata) ==
    [ i \in DOMAIN store \cup {id} |->
        IF i = id
        THEN [ vector |-> vector,
               metadata |-> IF id \in DOMAIN store THEN store[id].metadata ELSE metadata ]
        ELSE store[i] ]

\* SimpleVectorStore.upsert on the in-memory store
upsert(store, id, vector, metadata) ==
    [ i \in DOMAIN store \cup {id} |->
        IF i = id THEN [ vector |-> vector, metadata |-> metadata ] ELSE store[i] ]

SearchK == 3

\* the functions of the text alone, computed once per text
TextSentiment == [ text \in Texts |-> simple_sentiment(text) ]

\* the vector is computed but not stored
chroma_process_without_upsert(text, user_id, store) ==
    LET sentiment    == TextSentiment[text]
        color_vector == text_to_color(text, sentiment)
        vector_id    == vector_id_of(text, user_id)
        stored       == store
    IN  [ out |-> [ sentiment     |-> FloatSentiment(sentiment),
                    color_vector  |-> color_vector,
                    similar_count |-> Min(SearchK, Cardinality(DOMAIN stored)),
                    vector_id     |-> vector_id,
                    embedding_dim |-> 0 ],
          store |-> stored ]

\* ChromaTriad.process: the returned dict and the store after the upsert
chroma_process(text, user_id, store) ==
    LET sentiment    == TextSentiment[text]
        color_vector == text_to_color(text, sentiment)
        vector_id    == vector_id_of(text, user_id)
        stored       == upsert(store, vector_id, color_vector,
                               [ user_id |-> user_id, sentiment |-> sentiment,
                                 text_snippet |-> text ])  \* text[:100]
    IN  [ out |-> [ sentiment     |-> FloatSentiment(sentiment),
                    color_vector  |-> color_vector,
                    similar_count |-> Min(SearchK, Cardinality(DOMAIN stored)),
                    vector_id     |-> vector_id,
                    embedding_dim |-> 0 ],
          store |-> stored ]

important_words == << W.wisdom, W.knowledge, W.love, W.compassion, W.justice, W.truth, W.virtue, W.faith, W.hope, W.charity, W.temperance, W.prudence, W.fortitude, W.courage, W.patience, W.kindness >>

IsUpper(c) == \E i \in 1..Len(UpperChars) : UpperChars[i] = c
IsLower(c) == \E i \in 1..Len(LowerChars) : LowerChars[i] = c

\* word.capitalize()
Capitalize(word) ==
    [ i \in 1..Len(word) |->
        IF i = 1 /\ IsLower(word[1])
        THEN UpperChars[CHOOSE k \in 1..Len(LowerChars) : LowerChars[k] = word[1]]
        ELSE IF i > 1 THEN LowerChar(word[i]) ELSE word[i] ]

\* re.findall(r'\b[A-Z][a-z]+\b', text): whole words, one capital then lowercase
IsCapitalized(word) ==
    /\ Len(word) >= 2
    /\ IsUpper(word[1])
    /\ \A i \in 2..Len(word) : IsLower(word[i])

\* word in text.lower()
InText(text, needle) ==
    \E i \in 1..Len(TextWords[text]) : Contains(Lower(TextWords[text][i]), needle)

\* PrismoTriad._extract_concepts: set(words)
extract_concepts(text) ==
    { TextWords[text][i] :
        i \in { k \in 1..Len(TextWords[text]) : IsCapitalized(TextWords[text][k]) } }
    \cup { Capitalize(important_words[k]) :
              k \in { j \in 1..Len(important_words) : InText(text, important_words[j]) } }

\* PrismoTriad._check_slmu_compliance
prismo_check_slmu_compliance(concept, rules) ==
    ~ \E k \in 1..Len(rules.prohibited_concepts) :
          Contains(Lower(concept), Lower(rules.prohibited_concepts[k]))

TextConcepts == [ text \in Texts |-> extract_concepts(text) ]

ConceptLimit == 10

\* list(set(words))[:10]: the set in some order, cut to its first ten
Orders(S) ==
    { f \in [1..Min(ConceptLimit, Cardinality(S)) -> S] :
        \A i, j \in DOMAIN f : f[i] = f[j] => i = j }

\* PrismoTriad.process for the concepts in the order list(set(words)) yields:
\* the returned dict (keys it lacks hold the default they are read with) and the
\* concept table after the stores
prismo_process(concepts, user_id, rules, db, writable) ==
    LET compliant(concept) == prismo_check_slmu_compliance(concept, rules)
        compliant_concepts == SelectSeq(concepts, compliant)
        \* _store_concept; a failed insert is swallowed
        stored == IF writable
                  THEN db \cup { <<user_id, Lower(compliant_concepts[k])>> :
                                    k \in 1..Len(compliant_concepts) }
                  ELSE db
    IN  [ out |-> [ compliant |-> Len(compliant_concepts) # 0,
                    text |-> w_empty,
                    concepts |-> [ k \in 1..Len(compliant_concepts) |->
                                     StrConcept(compliant_concepts[k]) ],
                    relationships |-> <<>>,
                    ethical_patterns |-> [ harm_patterns |-> <<>>,
                                           ethical_patterns |-> <<>>,
                                           command_patterns |-> <<>> ],
                    linguistic_features |-> [ present |-> FALSE, token_count |-> 0,
                                              pos_diversity |-> 0 ],
                    entities |-> <<>>,
                    concept_count |-> Len(compliant_concepts),
                    entity_count |-> 0,
                    sentence_count |-> 0 ],
          db |-> stored ]

\* AnchorTriad._generate_response: the template chosen and the text it echoes
generate_response(text) ==
    LET any(needles) == \E n \in needles : InText(text, n)
    IN  IF any({W.help, W.assist, W.guide}) THEN [ template |-> "help", text |-> text ]
        ELSE IF any({W.wisdom, W.knowledge, W.learn})
             THEN [ template |-> "wisdom", text |-> text ]
        ELSE IF any({W.thank, W.grateful, W.appreciate})
             THEN [ template |-> "gratitude", text |-> "" ]
        ELSE [ template |-> "acknowledged", text |-> text ]

TextResponse == [ text \in Texts |-> generate_response(text) ]

\* a failed append to the log file is reported in interaction_logged
anchor_process_reports_failure(text, user_id, session_id, log, writable) ==
    LET interaction == [ user_id |-> user_id, session_id |-> session_id, text |-> text ]
        written == IF writable THEN Append(log, interaction) ELSE log
        session_count ==
            Cardinality({ k \in 1..Len(written) : written[k].session_id = session_id })
    IN  [ out |-> [ interaction_logged |-> writable,
                    session_id |-> session_id,
                    response |-> TextResponse[text],
                    interaction_count |-> session_count ],
          log |-> written ]

\* AnchorTriad.process; a failed append to the log file is swallowed
anchor_process(text, user_id, session_id, log, writable) ==
    LET interaction == [ user_id |-> user_id, session_id |-> session_id, text |-> text ]
        written == IF writable THEN Append(log, interaction) ELSE log
        session_count ==
            Cardinality({ k \in 1..Len(written) : written[k].session_id = session_id })
    IN  [ out |-> [ interaction_logged |-> TRUE,
                    session_id |-> session_id,
                    response |-> TextResponse[text],
                    interaction_count |-> session_count ],
          log |-> written ]

----------------------------------------------------------------------------
(* numpy arrays of floats *)

\* 0.0 / 0.0; x / 0.0 for another x is an infinity <<1, 0>> or <<-1, 0>>
NaN == <<0, 0>>

Finite(x) == x[2] # 0

FAdd(a, b) == IF Finite(a) /\ Finite(b) THEN RAdd(a, b) ELSE NaN
FMul(a, b) == IF Finite(a) /\ Finite(b) THEN RMul(a, b) ELSE NaN
FDiv(a, b) ==
    IF ~(Finite(a) /\ Finite(b)) THEN NaN
    ELSE IF b = Zero THEN <<(IF a[1] > 0 THEN 1 ELSE IF a[1] < 0 THEN -1 ELSE 0), 0>>
    ELSE RDiv(a, b)

IsSquare(n) == \E r \in 0..n : r * r = n
ISqrt(n) == CHOOSE r \in 0..n : r * r = n

\* the arguments of sqrt are kept to squares of rationals, so that the float
\* result is the exact one
HasExactRoot(x) == Finite(x) /\ x[1] >= 0 /\ IsSquare(x[1]) /\ IsSquare(x[2])
sqrt(x) == IF Finite(x) THEN <<ISqrt(x[1]), ISqrt(x[2])>> ELSE NaN

RECURSIVE dot_upto(_, _, _)
dot_upto(a, b, n) ==
    IF n = 0 THEN Zero ELSE FAdd(dot_upto(a, b, n - 1), FMul(a[n], b[n]))

\* np.dot of two arrays of one shape
dot(a, b) == dot_upto(a, b, Len(a))

\* np.linalg.norm
norm(v) == sqrt(dot(v, v))

\* k * v, a + b and v / x on arrays
scale(k, v) == [ i \in 1..Len(v) |-> FMul(k, v[i]) ]
add(a, b) == [ i \in 1..Len(a) |-> FAdd(a[i], b[i]) ]
divide(v, x) == [ i \in 1..Len(v) |-> FDiv(v[i], x) ]

AllFinite(v) == \A i \in 1..Len(v) : Finite(v[i])

----------------------------------------------------------------------------
(* src/vector_store.py *)

\* SimpleVectorStore.get
get(store, id) ==
    IF id \in DOMAIN store
    THEN [ id |-> id, vector |-> store[id].vector, metadata |-> store[id].metadata ]
    ELSE None

\* np.dot(query_vector, vec) / (np.linalg.norm(query_vector) * np.linalg.norm(vec)):
\* 0.0 / 0.0 when a norm is zero, which numpy answers with nan and a warning
similarity(query_vector, vec) ==
    FDiv(dot(query_vector, vec), FMul(norm(query_vector), norm(vec)))

\* SimpleVectorStore.search: the lists it can return.  np.dot raises on arrays of
\* different lengths and the entry is skipped.  list.sort keeps entries of equal
\* similarity in the order of the dict, which the store of the model does not
\* hold, and leaves a list with a nan in it in an order that depends on where the
\* nan stands: any order of equal entries, and any order at all around a nan.
search(store, query_vector, k) ==
    LET scored == { id \in DOMAIN store : Len(store[id].vector) = Len(query_vector) }
        sim == [ id \in scored |-> similarity(query_vector, store[id].vector) ]
        n == Cardinality(scored)
        sorted(order) ==
            \/ \E id \in scored : ~Finite(sim[id])
            \/ \A i \in 1..n, j \in 1..n : i < j => RLe(sim[order[j]], sim[order[i]])
        similarities ==
            { order \in [ 1..n -> scored ] :
                /\ \A i \in 1..n, j \in 1..n : i # j => order[i] # order[j]
                /\ sorted(order) }
    IN  IF DOMAIN store = {} THEN { <<>> }
        ELSE { [ i \in 1..Min(k, n) |->
                   [ id |-> order[i], similarity |-> sim[order[i]],
                     metadata |-> store[order[i]].metadata ] ] :
               order \in similarities }

----------------------------------------------------------------------------
(* src/soul.py *)

ema_keep == Rat(9, 10)
ema_new  == Rat(1, 10)

SoulDim == 7

\* a vector of SoulDim floats: the given leading components, then zeros
Vec7(leading) ==
    [ i \in 1..SoulDim |-> IF i <= Len(leading) THEN leading[i] ELSE Zero ]

\* what np.random.random(7) returns, by the seed of the generator and the number
\* of the draw: seven floats in [0, 1)
RandomSamples ==
    << << Vec7(<<Half, Half, Half, Half>>), Vec7(<<Rat(3, 10), Rat(2, 5)>>) >>,
       << Vec7(<<Rat(3, 10), Rat(2, 5)>>), Vec7(<<Rat(1, 3)>>) >> >>

random_sample(draw) == RandomSamples[draw.seed.entropy][draw.draw]

\* 0.9 * old_vector + 0.1 * chroma_vector
ema_blend(old_vector, chroma_vector) ==
    add(scale(ema_keep, old_vector), scale(ema_new, chroma_vector))

\* the vector is stored as the blend itself
ema_vector_unnormalized(old_vector, chroma_vector) ==
    LET new_vector == ema_blend(old_vector, chroma_vector)
    IN  new_vector

\* Soul.update: the exponential moving average of the vector, normalized
ema_vector(old_vector, chroma_vector) ==
    LET new_vector == ema_blend(old_vector, chroma_vector)
    IN  divide(new_vector, norm(new_vector))

\* the list of floats a stored vector holds
RECURSIVE blend_upto(_, _)
blend_upto(vector, n) ==
    IF n = 0 THEN random_sample(vector.random)
    ELSE ema_vector(blend_upto(vector, n - 1), vector.blended[n])

vector_value(vector) == blend_upto(vector, Len(vector.blended))

\* np.random.random(7): the next draw of the global generator
random_draw(generator) == [ seed |-> generator.seed, draw |-> generator.drawn + 1 ]

\* json.dump writes what it has encoded so far and raises at the first value
\* it cannot encode
json_serializable(all_souls) ==
    \A u \in DOMAIN all_souls : \A key \in DOMAIN all_souls[u].preferences :
        all_souls[u].preferences[key].json

\* Soul._save; every exception is swallowed.  open(soul_file, 'w') fails and
\* leaves the file as it was, or empties it; json.dump then writes the
\* collection, or a part of it when it raises on the way.
soul_save(all_souls, file, writable) ==
    IF ~writable THEN file
    ELSE IF json_serializable(all_souls) THEN all_souls
    ELSE [ partial |-> TRUE ]

\* a record is created on every call
get_or_create_always_creates(all_souls, file, generator, user_id, writable) ==
    LET created ==
          [ u \in DOMAIN all_souls \cup {user_id} |->
              IF u = user_id
              THEN [ user_id |-> user_id,
                     vector |-> [ random |-> random_draw(generator), blended |-> <<>> ],
                     alignment_score |-> Half,
                     interaction_count |-> 0,
                     preferences |-> <<>> ]
              ELSE all_souls[u] ]
    IN  [ souls |-> created,
          file  |-> soul_save(created, file, writable),
          rng   |-> [ generator EXCEPT !.drawn = @ + 1 ] ]

\* Soul.get_or_create.  A vector is the expression that computes it: the draw of
\* the creation, then the chroma vectors blended in by update, oldest first.
get_or_create(all_souls, file, generator, user_id, writable) ==
    IF user_id \in DOMAIN all_souls
    THEN [ souls |-> all_souls, file |-> file, rng |-> generator ]
    ELSE LET created ==
               [ u \in DOMAIN all_souls \cup {user_id} |->
                   IF u = user_id
                   THEN [ user_id |-> user_id,
                          vector |-> [ random |-> random_draw(generator), blended |-> <<>> ],
                          alignment_score |-> Half,
                          interaction_count |-> 0,
                          preferences |-> <<>> ]
                   ELSE all_souls[u] ]
         IN  [ souls |-> created,
               file  |-> soul_save(created, file, writable),
               rng   |-> [ generator EXCEPT !.drawn = @ + 1 ] ]

\* the alignment score is replaced by the coherence of the interaction
soul_update_replaces_alignment(all_souls, file, generator, user_id, chroma_vector, coherence, writable) ==
    LET got == get_or_create(all_souls, file, generator, user_id, writable)
        soul == got.souls[user_id]
        new_alignment == coherence
        updated ==
            [ got.souls EXCEPT ![user_id] =
                [ soul EXCEPT
                    !.vector = [ soul.vector EXCEPT !.blended = Append(@, chroma_vector) ],
                    !.alignment_score = Clip(new_alignment, Zero, One),
                    !.interaction_count = @ + 1 ] ]
    IN  [ souls |-> updated,
          file  |-> soul_save(updated, got.file, writable),
          rng   |-> got.rng ]

\* Soul.set_preference
set_preference(all_souls, file, generator, user_id, key, value, writable) ==
    LET got == get_or_create(all_souls, file, generator, user_id, writable)
        soul == got.souls[user_id]
        preferences == [ k \in DOMAIN soul.preferences \cup {key} |->
                           IF k = key THEN value ELSE soul.preferences[k] ]
        updated == [ got.souls EXCEPT ![user_id] =
                       [ soul EXCEPT !.preferences = preferences ] ]
    IN  [ souls |-> updated,
          file  |-> soul_save(updated, got.file, writable),
          rng   |-> got.rng ]

\* an interaction is counted twice
soul_update_counts_twice(all_souls, file, generator, user_id, chroma_vector, coherence, writable) ==
    LET got == get_or_create(all_souls, file, generator, user_id, writable)
        soul == got.souls[user_id]
        new_alignment == RAdd(RMul(ema_keep, soul.alignment_score), RMul(ema_new, coherence))
        updated ==
            [ got.souls EXCEPT ![user_id] =
                [ soul EXCEPT
                    !.vector = [ soul.vector EXCEPT !.blended = Append(@, chroma_vector) ],
                    !.alignment_score = Clip(new_alignment, Zero, One),
                    !.interaction_count = @ + 2 ] ]
    IN  [ souls |-> updated,
          file  |-> soul_save(updated, got.file, writable),
          rng   |-> got.rng ]

\* Soul.update
soul_update(all_souls, file, generator, user_id, chroma_vector, coherence, writable) ==
    LET got == get_or_create(all_souls, file, generator, user_id, writable)
        soul == got.souls[user_id]
        new_alignment == RAdd(RMul(ema_keep, soul.alignment_score), RMul(ema_new, coherence))
        updated ==
            [ got.souls EXCEPT ![user_id] =
                [ soul EXCEPT
                    !.vector = [ soul.vector EXCEPT !.blended = Append(@, chroma_vector) ],
                    !.alignment_score = Clip(new_alignment, Zero, One),
                    !.interaction_count = @ + 1 ] ]
    IN  [ souls |-> updated,
          file  |-> soul_save(updated, got.file, writable),
          rng   |-> got.rng ]

----------------------------------------------------------------------------
(* src/main.py *)

MaxRequests == 2

Users == { "alice", "bob" }
SessionIds == { [ given |-> "s1" ] }

\* ProcessRequest: text and user_id are non-empty, session_id is optional
Requests ==
    [ method : {"POST /process"}, text : Texts, user_id : Users,
      session_id : SessionIds \cup {None} ]

\* the soul is updated as soon as the triads have run, whatever the fusion says
respond_updates_first(req, session_id, chroma_out, prismo_out, fusion, kept, writable) ==
    LET early == soul_update(kept.souls, kept.file, kept.rng, req.user_id,
                             chroma_out.color_vector, Zero, writable)
    IN  IF fusion.raised
        THEN [ response |-> [ status |-> 500, detail |-> fusion.error ], soul |-> early ]
        ELSE IF ~fusion.success
        THEN [ response |-> [ status |-> 400, detail |-> fusion.reason ], soul |-> early ]
        ELSE [ response |-> [ status |-> 200, success |-> TRUE,
                              coherence |-> fusion.coherence ],
               soul |-> early ]

\* process_input from the fusion result on: the HTTP response and the soul store
respond(req, session_id, chroma_out, prismo_out, fusion, kept, writable) ==
    IF fusion.raised
    THEN [ response |-> [ status |-> 500, detail |-> fusion.error ], soul |-> kept ]
    ELSE IF ~fusion.success
    THEN [ response |-> [ status |-> 400, detail |-> fusion.reason ], soul |-> kept ]
    ELSE LET updated == soul_update(kept.souls, kept.file, kept.rng, req.user_id,
                                    chroma_out.color_vector, fusion.coherence, writable)
         IN  \* ProcessResponse: coherence ge=0.0, le=1.0
             IF RLe(Zero, fusion.coherence) /\ RLe(fusion.coherence, One)
             THEN [ response |->
                      [ status |-> 200, success |-> TRUE,
                        coherence |-> fusion.coherence,
                        response |-> fusion.response,
                        details |->
                          [ sentiment |-> chroma_out.sentiment,
                            concepts  |-> prismo_out.concepts,
                            soul_alignment |->
                                updated.souls[req.user_id].alignment_score,
                            session_id |-> session_id,
                            similar_memories |-> chroma_out.similar_count,
                            triad_outputs |-> fusion.triad_outputs ] ],
                    soul |-> updated ]
             ELSE [ response |-> [ status |-> 500, detail |-> "ValidationError" ],
                    soul |-> updated ]

Init ==
    /\ SlmuIdle
    /\ weights = default_weights
    /\ slmu_rules \in RuleSets
    /\ n_updates = 0
    /\ fuse_in = NoCall
    /\ fuse_out = NoCall
    /\ AppIdle

\* POST /process
ProcessInput ==
    /\ n_requests < MaxRequests
    /\ \E req \in Requests, writable \in BOOLEAN :
       \E concepts \in Orders(TextConcepts[req.text]) :
       \E session_id \in { IF req.session_id = None THEN [ uuid4 |-> n_requests ]
                           ELSE req.session_id } :
       \E chroma \in { chroma_process(req.text, req.user_id, vector_store) },
          prismo \in { prismo_process(concepts, req.user_id, slmu_rules,
                                      concepts_db, writable) },
          anchor \in { anchor_process(req.text, req.user_id, session_id,
                                      interaction_log, writable) } :
       \E fusion \in { fuse(chroma.out, prismo.out, anchor.out, weights, slmu_rules) } :
       \E answer \in { respond(req, session_id, chroma.out, prismo.out, fusion,
                               [ souls |-> souls, file |-> soul_file,
                                 rng |-> [ seed |-> [ hash |-> req.text ], drawn |-> 1 ] ],
                               writable) } :
             /\ request' = req
             /\ vector_store' = chroma.store
             /\ vector_file' = IF writable THEN chroma.store ELSE vector_file
             /\ concepts_db' = prismo.db
             /\ interaction_log' = anchor.log
             /\ fused' = fusion
             /\ souls' = answer.soul.souls
             /\ soul_file' = answer.soul.file
             /\ rng' = answer.soul.rng
             /\ response' = answer.response
    /\ n_requests' = n_requests + 1
    /\ UNCHANGED slmu_vars
    /\ UNCHANGED callosum_vars
    /\ UNCHANGED sleep_vars
    /\ UNCHANGED threads

\* GET /soul/{user_id}
GetSoul ==
    /\ n_requests < MaxRequests
    /\ \E user_id \in Users, writable \in BOOLEAN :
         LET got == get_or_create(souls, soul_file, rng, user_id, writable)
         IN  /\ request' = [ method |-> "GET /soul", user_id |-> user_id ]
             /\ souls' = got.souls
             /\ soul_file' = got.file
             /\ rng' = got.rng
             /\ response' = [ status |-> 200, soul |-> got.souls[user_id] ]
    /\ fused' = None
    /\ n_requests' = n_requests + 1
    /\ UNCHANGED <<vector_store, vector_file, concepts_db, interaction_log>>
    /\ UNCHANGED slmu_vars
    /\ UNCHANGED callosum_vars
    /\ UNCHANGED sleep_vars
    /\ UNCHANGED threads

Next == ProcessInput \/ GetSoul

Spec == Init /\ [][Next]_vars

----------------------------------------------------------------------------
(* Calls of Soul.get_or_create and Soul.update *)

MaxSoulCalls == 2

Coherences == { Zero, Rat(1, 4), One }

ChromaVectors ==
    { Vec7(<<>>),
      Vec7(<<Zero, Zero, Zero, Zero, Rat(12, 1)>>),
      Vec7(<<Zero, Zero, Zero, Zero, Rat(6, 1)>>) }

\* the norm of the vector is a float the model holds exactly
ExactNorm(v) == AllFinite(v) => HasExactRoot(dot(v, v))

InitSoul ==
    /\ SlmuIdle
    /\ CallosumIdle
    /\ souls = <<>>
    /\ soul_file = <<>>
    /\ vector_store = <<>>
    /\ vector_file = <<>>
    /\ concepts_db = {}
    /\ interaction_log = <<>>
    /\ \E entropy \in 1..Len(RandomSamples) :
         rng = [ seed |-> [ entropy |-> entropy ], drawn |-> 0 ]
    /\ request = None
    /\ response = None
    /\ fused = None
    /\ n_requests = 0
    /\ last_run = None
    /\ run_count = 0
    /\ sleep_run = None
    /\ threads = <<>>

\* soul.get_or_create(user_id)
SoulGetOrCreate ==
    /\ n_requests < MaxSoulCalls
    /\ \E user_id \in Users, writable \in BOOLEAN :
       \E got \in { get_or_create(souls, soul_file, rng, user_id, writable) } :
             /\ request' = [ method |-> "Soul.get_or_create", user_id |-> user_id ]
             /\ souls' = got.souls
             /\ soul_file' = got.file
             /\ rng' = got.rng
             /\ response' = got.souls[user_id]
    /\ n_requests' = n_requests + 1
    /\ UNCHANGED <<vector_store, vector_file, concepts_db, interaction_log, fused>>
    /\ UNCHANGED slmu_vars
    /\ UNCHANGED callosum_vars
    /\ UNCHANGED sleep_vars
    /\ UNCHANGED threads

\* soul.update(user_id, chroma_vector, coherence); besides the vectors of
\* ChromaVectors, the one that cancels the old vector in the blend
SoulUpdate ==
    /\ n_requests < MaxSoulCalls
    /\ \E user_id \in Users, coherence \in Coherences, writable \in BOOLEAN :
       \E got \in { get_or_create(souls, soul_file, rng, user_id, writable) } :
       \E old_vector \in { vector_value(got.souls[user_id].vector) } :
       \E chroma_vector \in ChromaVectors \cup { scale(Rat(-9, 1), old_vector) } :
          /\ ExactNorm(ema_blend(old_vector, chroma_vector))
          /\ \E updated \in { soul_update(souls, soul_file, rng, user_id,
                                          chroma_vector, coherence, writable) } :
             /\ request' = [ method |-> "Soul.update", user_id |-> user_id,
                             chroma_vector |-> chroma_vector, coherence |-> coherence ]
             /\ souls' = updated.souls
             /\ soul_file' = updated.file
             /\ rng' = updated.rng
             /\ response' = updated.souls[user_id]
    /\ n_requests' = n_requests + 1
    /\ UNCHANGED <<vector_store, vector_file, concepts_db, interaction_log, fused>>
    /\ UNCHANGED slmu_vars
    /\ UNCHANGED callosum_vars
    /\ UNCHANGED sleep_vars
    /\ UNCHANGED threads

\* a string, and a value json cannot encode (a set, a datetime, an array)
PreferenceValues ==
    { [ value |-> "dark", json |-> TRUE ], [ value |-> "set()", json |-> FALSE ] }

\* soul.set_preference(user_id, key, value)
SoulSetPreference ==
    /\ n_requests < MaxSoulCalls
    /\ \E user_id \in Users, value \in PreferenceValues, writable \in BOOLEAN :
       \E updated \in { set_preference(souls, soul_file, rng, user_id, "theme", value,
                                       writable) } :
             /\ request' = [ method |-> "Soul.set_preference", user_id |-> user_id,
                             key |-> "theme", value |-> value ]
             /\ souls' = updated.souls
             /\ soul_file' = updated.file
             /\ rng' = updated.rng
             /\ response' = None
    /\ n_requests' = n_requests + 1
    /\ UNCHANGED <<vector_store, vector_file, concepts_db, interaction_log, fused>>
    /\ UNCHANGED slmu_vars
    /\ UNCHANGED callosum_vars
    /\ UNCHANGED sleep_vars
    /\ UNCHANGED threads

NextSoul == SoulGetOrCreate \/ SoulUpdate \/ SoulSetPreference

SpecSoul == InitSoul /\ [][NextSoul]_vars

----------------------------------------------------------------------------
(* Calls of SimpleVectorStore.upsert, get and search *)

MaxUpserts == 2

StoreIds == { "a", "b" }

\* arrays of two floats, the zero array among them
StoreVectors ==
    { <<Zero, Zero>>, <<One, Zero>>, <<Rat(3, 1), Rat(4, 1)>>, <<Rat(-1, 1), Zero>> }

Metadatas == { [ user_id |-> "alice" ], [ user_id |-> "bob" ] }

DefaultK == 5

InitStore ==
    /\ SlmuIdle
    /\ CallosumIdle
    /\ AppIdle

\* vector_store.upsert(id, vector, metadata); n_requests counts the writes
StoreUpsert ==
    /\ n_requests < MaxUpserts
    /\ \E id \in StoreIds, vector \in StoreVectors, metadata \in Metadatas,
          writable \in BOOLEAN :
         /\ request' = [ method |-> "upsert", id |-> id, vector |-> vector,
                         metadata |-> metadata ]
         /\ vector_store' = upsert(vector_store, id, vector, metadata)
         /\ vector_file' = IF writable THEN vector_store' ELSE vector_file
         /\ response' = None
    /\ n_requests' = n_requests + 1
    /\ UNCHANGED <<souls, soul_file, concepts_db, interaction_log, rng, fused>>
    /\ UNCHANGED slmu_vars
    /\ UNCHANGED callosum_vars
    /\ UNCHANGED sleep_vars
    /\ UNCHANGED threads

\* vector_store.get(id)
StoreGet ==
    /\ \E id \in StoreIds :
         /\ request' = [ method |-> "get", id |-> id ]
         /\ response' = get(vector_store, id)
    /\ UNCHANGED <<souls, soul_file, vector_store, vector_file, concepts_db,
                   interaction_log, rng, fused, n_requests>>
    /\ UNCHANGED slmu_vars
    /\ UNCHANGED callosum_vars
    /\ UNCHANGED sleep_vars
    /\ UNCHANGED threads

\* vector_store.search(query_vector, k), also with k left to its default
StoreSearch ==
    /\ \E query_vector \in StoreVectors, k \in { 1, DefaultK } :
       \E results \in search(vector_store, query_vector, k) :
         /\ request' = [ method |-> "search", query_vector |-> query_vector, k |-> k ]
         /\ response' = [ results |-> results ]
    /\ UNCHANGED <<souls, soul_file, vector_store, vector_file, concepts_db,
                   interaction_log, rng, fused, n_requests>>
    /\ UNCHANGED slmu_vars
    /\ UNCHANGED callosum_vars
    /\ UNCHANGED sleep_vars
    /\ UNCHANGED threads

NextStore == StoreUpsert \/ StoreGet \/ StoreSearch

SpecStore == InitStore /\ [][NextStore]_vars

----------------------------------------------------------------------------
(* src/sleep.py *)

\* SleepPhase._validate_vectors; vector_store.count() is len(self.vectors)
validate_vectors(store) ==
    [ count |-> Cardinality(DOMAIN store), status |-> "valid" ]

\* SleepPhase._validate_concepts; prismo.get_concept_count() is SELECT COUNT(*)
\* FROM concepts, and a query that sqlite refuses is reported, not raised
validate_concepts(db, db_ok) ==
    IF db_ok THEN [ count |-> Cardinality(db), status |-> "valid" ]
    ELSE [ count |-> 0, status |-> "error" ]

\* the scan visits every known user id, not only those that have a soul
get_all_users_of_every_id(all_souls) == Users

\* Soul.get_all_users
get_all_users(all_souls) == DOMAIN all_souls

\* Soul.get_stats: the number of souls, the mean of their alignment scores and
\* the sum of their interaction counts (min and max of the scores are left out)
get_stats(all_souls) ==
    IF DOMAIN all_souls = {}
    THEN [ total_users |-> 0, avg_alignment |-> Zero, total_interactions |-> 0 ]
    ELSE LET users == CHOOSE order \in Orders(DOMAIN all_souls) : TRUE
             RECURSIVE alignments(_)
             alignments(n) ==
                 IF n = 0 THEN Zero
                 ELSE FAdd(alignments(n - 1), all_souls[users[n]].alignment_score)
             RECURSIVE interactions(_)
             interactions(n) ==
                 IF n = 0 THEN 0
                 ELSE interactions(n - 1) + all_souls[users[n]].interaction_count
         IN  [ total_users |-> Len(users),
               avg_alignment |-> FDiv(alignments(Len(users)), Rat(Len(users), 1)),
               total_interactions |-> interactions(Len(users)) ]

----------------------------------------------------------------------------
(* The sleep cycle, in the scheduler's thread, next to live requests *)

MaxRuns == 1
MaxLive == 1

Returned == sleep_run # None /\ sleep_run.pc = "returned"

At(pc) == sleep_run # None /\ sleep_run.pc = pc

InitSleep ==
    /\ SlmuIdle
    /\ weights = default_weights
    /\ slmu_rules \in RuleSets
    /\ n_updates = 0
    /\ fuse_in = NoCall
    /\ fuse_out = NoCall
    /\ AppIdle

\* run_sleep_cycle is entered
SleepStart ==
    /\ sleep_run = None \/ Returned
    /\ run_count < MaxRuns
    /\ sleep_run' = [ pc |-> "validate_vectors", results |-> <<>>, users |-> <<>>,
                       refined_count |-> 0 ]
    /\ UNCHANGED <<last_run, run_count>>
    /\ UNCHANGED <<souls, soul_file, rng, vector_store, vector_file, concepts_db,
                   interaction_log, request, response, fused, n_requests, threads>>
    /\ UNCHANGED slmu_vars
    /\ UNCHANGED callosum_vars

\* Stage 1, vectors
ValidateVectors ==
    /\ At("validate_vectors")
    /\ sleep_run' = [ sleep_run EXCEPT !.pc = "validate_concepts",
                        !.results = [ vectors |-> validate_vectors(vector_store) ] ]
    /\ UNCHANGED <<last_run, run_count>>
    /\ UNCHANGED <<souls, soul_file, rng, vector_store, vector_file, concepts_db,
                   interaction_log, request, response, fused, n_requests, threads>>
    /\ UNCHANGED slmu_vars
    /\ UNCHANGED callosum_vars

\* Stage 1, concepts; Stage 2 is skipped
ValidateConcepts ==
    /\ At("validate_concepts")
    /\ \E db_ok \in BOOLEAN :
         sleep_run' = [ sleep_run EXCEPT !.pc = "get_all_users",
                          !.results = [ validation |->
                                          [ vectors |-> @.vectors,
                                            concepts |-> validate_concepts(concepts_db, db_ok) ],
                                        cleanup |-> [ status |-> "skipped_mvp" ] ] ]
    /\ UNCHANGED <<last_run, run_count>>
    /\ UNCHANGED <<souls, soul_file, rng, vector_store, vector_file, concepts_db,
                   interaction_log, request, response, fused, n_requests, threads>>
    /\ UNCHANGED slmu_vars
    /\ UNCHANGED callosum_vars

\* Stage 3: users = self.soul.get_all_users(), the keys in some order
GetAllUsers ==
    /\ At("get_all_users")
    /\ \E users \in Orders(get_all_users(souls)) :
         sleep_run' = [ sleep_run EXCEPT !.pc = "for_user_id", !.users = users ]
    /\ UNCHANGED <<last_run, run_count>>
    /\ UNCHANGED <<souls, soul_file, rng, vector_store, vector_file, concepts_db,
                   interaction_log, request, response, fused, n_requests, threads>>
    /\ UNCHANGED slmu_vars
    /\ UNCHANGED callosum_vars

\* for user_id in users: soul = self.soul.get_or_create(user_id)
RefineSoul ==
    /\ At("for_user_id")
    /\ sleep_run.users # <<>>
    /\ \E writable \in BOOLEAN :
         LET got == get_or_create(souls, soul_file, rng, Head(sleep_run.users), writable)
         IN  /\ souls' = got.souls
             /\ soul_file' = got.file
             /\ rng' = got.rng
    /\ sleep_run' = [ sleep_run EXCEPT !.users = Tail(@), !.refined_count = @ + 1 ]
    /\ UNCHANGED <<last_run, run_count>>
    /\ UNCHANGED <<vector_store, vector_file, concepts_db, interaction_log, request,
                   response, fused, n_requests, threads>>
    /\ UNCHANGED slmu_vars
    /\ UNCHANGED callosum_vars

\* stats = self.soul.get_stats(), which iterates over the dict and raises when
\* another thread adds a soul meanwhile; _refine_souls reports what it catches
GetStats ==
    /\ At("for_user_id")
    /\ sleep_run.users = <<>>
    /\ \E iterated \in BOOLEAN :
         sleep_run' = [ sleep_run EXCEPT !.pc = "finish",
                          !.results = [ validation |-> @.validation,
                                        cleanup |-> @.cleanup,
                                        soul_refinement |->
                                          IF iterated
                                          THEN [ users_processed |-> sleep_run.refined_count,
                                                 stats |-> get_stats(souls),
                                                 status |-> "complete" ]
                                          ELSE [ users_processed |-> 0,
                                                 stats |-> None,
                                                 status |-> "error" ] ] ]
    /\ UNCHANGED <<last_run, run_count>>
    /\ UNCHANGED <<souls, soul_file, rng, vector_store, vector_file, concepts_db,
                   interaction_log, request, response, fused, n_requests, threads>>
    /\ UNCHANGED slmu_vars
    /\ UNCHANGED callosum_vars

\* the run ends: last_run, run_count, and the results are returned; the clock
\* is left out, last_run holds the number of the run that set it and the
\* results hold no duration
SleepFinish ==
    /\ At("finish")
    /\ last_run' = [ utcnow |-> [ of_run |-> run_count + 1 ] ]
    /\ sleep_run' = [ sleep_run EXCEPT !.pc = "returned",
                        !.results = [ validation |-> @.validation,
                                      cleanup |-> @.cleanup,
                                      soul_refinement |-> @.soul_refinement,
                                      success |-> TRUE ] ]
    /\ run_count' = run_count + 1
    /\ UNCHANGED <<souls, soul_file, rng, vector_store, vector_file, concepts_db,
                   interaction_log, request, response, fused, n_requests, threads>>
    /\ UNCHANGED slmu_vars
    /\ UNCHANGED callosum_vars

\* the requests served while the scheduler's thread runs or waits
LiveProcessInput == n_requests < MaxLive /\ ProcessInput

LiveGetSoul == n_requests < MaxLive /\ GetSoul

NextSleep ==
    \/ SleepStart \/ ValidateVectors \/ ValidateConcepts \/ GetAllUsers
    \/ RefineSoul \/ GetStats \/ SleepFinish
    \/ LiveProcessInput \/ LiveGetSoul

SpecSleep == InitSleep /\ [][NextSleep]_vars

----------------------------------------------------------------------------
(* Two threads that call Soul.update on one Soul object *)

Threads == { "t1", "t2" }

\* a thread that has not called yet: its position and the locals of update,
\* get_or_create and _save
Idle ==
    [ pc |-> "idle", then |-> "idle", user_id |-> "", chroma_vector |-> Vec7(<<>>),
      coherence |-> Zero, holds |-> FALSE, orphan |-> None,
      new_vector |-> [ random |-> None, blended |-> <<>> ], new_alignment |-> Zero,
      count |-> 0, dump |-> <<>>, failed |-> FALSE ]

\* the Soul object before the calls: no soul yet, or the souls a get_or_create
\* for alice, and then one for bob, have made
InitThreads ==
    /\ SlmuIdle
    /\ CallosumIdle
    /\ vector_store = <<>>
    /\ vector_file = <<>>
    /\ concepts_db = {}
    /\ interaction_log = <<>>
    /\ request = None
    /\ response = None
    /\ fused = None
    /\ n_requests = 0
    /\ last_run = None
    /\ run_count = 0
    /\ sleep_run = None
    /\ threads = [ t \in Threads |-> Idle ]
    /\ \E alice \in { get_or_create(<<>>, <<>>, [ seed |-> None, drawn |-> 0 ], "alice", TRUE) } :
       \E bob \in { get_or_create(alice.souls, alice.file, alice.rng, "bob", TRUE) } :
       \E before \in { [ souls |-> <<>>, file |-> <<>>, rng |-> [ seed |-> None, drawn |-> 0 ] ],
                       alice, bob } :
         /\ souls = before.souls
         /\ soul_file = before.file
         /\ rng = before.rng

\* the dict the local variable soul of thread t refers to: the one in
\* self.souls, or one that a later assignment to self.souls[user_id] replaced
soul_of(t) ==
    IF threads[t].orphan # None THEN threads[t].orphan ELSE souls[threads[t].user_id]

ThreadFrame ==
    /\ UNCHANGED <<vector_store, vector_file, concepts_db, interaction_log, request,
                   response, fused, n_requests>>
    /\ UNCHANGED sleep_vars
    /\ UNCHANGED slmu_vars
    /\ UNCHANGED callosum_vars

\* soul[...] = ... by thread t, then on to position pc
Assign(t, soul, pc) ==
    IF threads[t].orphan # None
    THEN /\ threads' = [ threads EXCEPT ![t].orphan = soul, ![t].pc = pc ]
         /\ souls' = souls
    ELSE /\ souls' = [ souls EXCEPT ![threads[t].user_id] = soul ]
         /\ threads' = [ threads EXCEPT ![t].pc = pc ]

\* soul.update(user_id, chroma_vector, coherence) is called, with one of two
\* vectors and one of two coherences
Update ==
    \E t \in Threads, user_id \in Users, chroma_vector \in ChromaVectors \ { Vec7(<<>>) },
       coherence \in Coherences \ { Rat(1, 4) } :
        /\ threads[t].pc = "idle"
        /\ threads' = [ threads EXCEPT ![t] =
                          [ Idle EXCEPT !.pc = "check", !.user_id = user_id,
                                        !.chroma_vector = chroma_vector,
                                        !.coherence = coherence ] ]
        /\ UNCHANGED <<souls, soul_file, rng>>
        /\ ThreadFrame

\* get_or_create: if user_id not in self.souls
CheckSoul ==
    \E t \in Threads :
        /\ threads[t].pc = "check"
        /\ threads' = [ threads EXCEPT ![t].pc =
                          IF threads[t].user_id \in DOMAIN souls THEN "lookup" ELSE "create" ]
        /\ UNCHANGED <<souls, soul_file, rng>>
        /\ ThreadFrame

\* get_or_create: self.souls[user_id] = {...}; a thread that holds the dict
\* this one replaces keeps it
CreateSoul ==
    \E t \in Threads :
        /\ threads[t].pc = "create"
        /\ LET user_id == threads[t].user_id
               created == [ user_id |-> user_id,
                            vector |-> [ random |-> random_draw(rng), blended |-> <<>> ],
                            alignment_score |-> Half,
                            interaction_count |-> 0,
                            preferences |-> <<>> ]
           IN  /\ souls' = [ u \in DOMAIN souls \cup {user_id} |->
                               IF u = user_id THEN created ELSE souls[u] ]
               /\ threads' = [ o \in Threads |->
                                 IF o = t
                                 THEN [ threads[t] EXCEPT !.pc = "dump", !.then = "lookup" ]
                                 ELSE IF /\ threads[o].holds
                                         /\ threads[o].user_id = user_id
                                         /\ threads[o].orphan = None
                                      THEN [ threads[o] EXCEPT !.orphan = souls[user_id] ]
                                      ELSE threads[o] ]
        /\ rng' = [ rng EXCEPT !.drawn = @ + 1 ]
        /\ UNCHANGED soul_file
        /\ ThreadFrame

\* _save: open(self.soul_file, 'w') empties the file, or fails; json.dump then
\* encodes self.souls as it is now, into the buffer of the file object
Dump ==
    \E t \in Threads, writable \in BOOLEAN :
        /\ threads[t].pc = "dump"
        /\ IF writable
           THEN /\ soul_file' = [ partial |-> TRUE ]
                /\ threads' = [ threads EXCEPT ![t].pc = "write", ![t].dump = souls ]
           ELSE /\ soul_file' = soul_file
                /\ threads' = [ threads EXCEPT ![t].pc = threads[t].then, ![t].failed = TRUE ]
        /\ UNCHANGED <<souls, rng>>
        /\ ThreadFrame

\* _save: leaving the with block closes the file object, which writes its
\* buffer to the file from the start (what a longer write of the other thread
\* left beyond its end stays there; the file is taken to hold the buffer alone)
Write ==
    \E t \in Threads :
        /\ threads[t].pc = "write"
        /\ soul_file' = threads[t].dump
        /\ threads' = [ threads EXCEPT ![t].pc = threads[t].then ]
        /\ UNCHANGED <<souls, rng>>
        /\ ThreadFrame

\* get_or_create: return self.souls[user_id]
Lookup ==
    \E t \in Threads :
        /\ threads[t].pc = "lookup"
        /\ threads' = [ threads EXCEPT ![t].pc = "read_vector", ![t].holds = TRUE,
                                        ![t].then = "returned" ]
        /\ UNCHANGED <<souls, soul_file, rng>>
        /\ ThreadFrame

\* update: old_vector = np.array(soul['vector']), and new_vector from it
ReadVector ==
    \E t \in Threads :
        /\ threads[t].pc = "read_vector"
        /\ threads' = [ threads EXCEPT ![t].pc = "read_alignment",
                          ![t].new_vector = [ soul_of(t).vector EXCEPT
                                                !.blended = Append(@, threads[t].chroma_vector) ] ]
        /\ UNCHANGED <<souls, soul_file, rng>>
        /\ ThreadFrame

\* update: old_alignment = soul['alignment_score'], and new_alignment from it
ReadAlignment ==
    \E t \in Threads :
        /\ threads[t].pc = "read_alignment"
        /\ threads' = [ threads EXCEPT ![t].pc = "write_vector",
                          ![t].new_alignment = RAdd(RMul(ema_keep, soul_of(t).alignment_score),
                                                    RMul(ema_new, threads[t].coherence)) ]
        /\ UNCHANGED <<souls, soul_file, rng>>
        /\ ThreadFrame

\* update: soul['vector'] = new_vector.tolist()
WriteVector ==
    \E t \in Threads :
        /\ threads[t].pc = "write_vector"
        /\ Assign(t, [ soul_of(t) EXCEPT !.vector = threads[t].new_vector ], "write_alignment")
        /\ UNCHANGED <<soul_file, rng>>
        /\ ThreadFrame

\* update: soul['alignment_score'] = float(np.clip(new_alignment, 0.0, 1.0))
WriteAlignment ==
    \E t \in Threads :
        /\ threads[t].pc = "write_alignment"
        /\ Assign(t, [ soul_of(t) EXCEPT
                         !.alignment_score = Clip(threads[t].new_alignment, Zero, One) ],
                  "read_count")
        /\ UNCHANGED <<soul_file, rng>>
        /\ ThreadFrame

\* update: soul['interaction_count'] += 1 loads the count ...
ReadCount ==
    \E t \in Threads :
        /\ threads[t].pc = "read_count"
        /\ threads' = [ threads EXCEPT ![t].pc = "write_count",
                          ![t].count = soul_of(t).interaction_count ]
        /\ UNCHANGED <<souls, soul_file, rng>>
        /\ ThreadFrame

\* the count is stored without the increment
incremented_not(count) == count

\* ... adds 1 to what it loaded ...
incremented(count) == count + 1

\* ... and stores the sum; self._save() is next, and then return soul
WriteCount ==
    \E t \in Threads :
        /\ threads[t].pc = "write_count"
        /\ Assign(t, [ soul_of(t) EXCEPT !.interaction_count = incremented(threads[t].count) ],
                  "dump")
        /\ UNCHANGED <<soul_file, rng>>
        /\ ThreadFrame

NextThreads ==
    \/ Update \/ CheckSoul \/ CreateSoul \/ Dump \/ Write \/ Lookup
    \/ ReadVector \/ ReadAlignment \/ WriteVector \/ WriteAlignment
    \/ ReadCount \/ WriteCount

SpecThreads == InitThreads /\ [][NextThreads]_vars

----------------------------------------------------------------------------
(* Claims about check_compliance_enhanced *)

Called == slmu_out # NoCall

\* C1: for every input of check_compliance_enhanced the returned 'compliant' flag
\* is true if and only if the returned 'violations' list is empty.
C1_CompliantIffNoViolations ==
    Called =>
        /\ ~slmu_out.raised
        /\ slmu_out.compliant <=> (slmu_out.violations = <<>>)

C1_Witness ==
    /\ Called
    /\ ~slmu_out.compliant
    /\ Len(slmu_out.violations) >= 2

\* The rule as the claim states it, for lowercased L and P
ClaimedMatch(L, P) ==
    /\ Len(L) >= 3
    /\ \/ L = P
       \/ /\ Len(L) >= 5
          /\ Len(P) >= 5
          /\ LET r == (IF Len(L) < Len(P) THEN Len(L) ELSE Len(P)) - 3
             IN  r >= 4 /\ \A k \in 1..r : L[k] = P[k]

MatchKind == IF slmu_in.concepts # <<>> THEN "concept" ELSE "relationship"
MatchLemma ==
    IF MatchKind = "concept" THEN slmu_in.concepts[1].lemma
    ELSE slmu_in.relationships[1].predicate_lemma
MatchProhibited == slmu_in.rules.prohibited_concepts[1]

\* C6: a concept lemma or relationship predicate lemma L is a violation against a
\* prohibited string P (both lowercased) if and only if len(L) >= 3 and either
\* L == P, or both are at least 5 long, r = min(len(L), len(P)) - 3 >= 4 and their
\* first r characters are equal; the violation has type prohibited_concept_lemma
\* (concept) or prohibited_relationship (relationship) and severity high, and it
\* makes the input non-compliant.  'manipulate' against 'manipulation' in either
\* direction is a violation, 'cat' against 'category' is not.
C6_MatchRule ==
    Called =>
        LET L == Lower(MatchLemma)
            P == Lower(MatchProhibited)
            v == slmu_out.violations
        IN  /\ ~slmu_out.raised
            /\ IF ClaimedMatch(L, P)
               THEN /\ Len(v) = 1
                    /\ v[1].type = (IF MatchKind = "concept"
                                    THEN "prohibited_concept_lemma"
                                    ELSE "prohibited_relationship")
                    /\ v[1].severity = "high"
                    /\ v[1].matched_rule = MatchProhibited
                    /\ ~slmu_out.compliant
               ELSE v = <<>> /\ slmu_out.compliant
            /\ ({L, P} = {W.manipulate, W.manipulation} => ~slmu_out.compliant)
            /\ (L = W.cat /\ P = W.category => slmu_out.compliant)

C6_Witness ==
    /\ Called
    /\ MatchKind = "relationship"
    /\ MatchLemma = W.manipulate
    /\ MatchProhibited = W.manipulation
    /\ slmu_in.concepts = <<>>
    /\ ~slmu_out.compliant
    /\ slmu_out.violations[1].type = "prohibited_relationship"

HarmViolation(harm) ==
    [ type |-> "harm_pattern_detected", text |-> harm.text, lemma |-> harm.lemma,
      severity |-> "high" ]

\* The violations of the same call with only one of the three sources kept
ViolationsOf(concepts, relationships, harm_patterns) ==
    CallSlmu([slmu_in EXCEPT
                 !.concepts = concepts,
                 !.relationships = relationships,
                 !.ethical_matches.harm_patterns = harm_patterns]).violations

\* C7: every entry of the harm-pattern list produces exactly one violation of type
\* harm_pattern_detected with severity high, whatever the text, concepts and rules;
\* a non-empty harm-pattern list makes the result non-compliant; the checks
\* accumulate in order (lemma, relationship, harm pattern) without an early exit.
C7_HarmPatternsAlwaysViolate ==
    Called =>
        LET v    == slmu_out.violations
            harm == slmu_in.ethical_matches.harm_patterns
            n    == Len(v)
            h    == Len(harm)
        IN  /\ n >= h
            /\ \A k \in 1..h : v[n - h + k] = HarmViolation(harm[k])
            /\ \A k \in 1..(n - h) : v[k].type # "harm_pattern_detected"
            /\ (h > 0 => ~slmu_out.compliant)
            /\ v = ViolationsOf(slmu_in.concepts, <<>>, <<>>)
                   \o ViolationsOf(<<>>, slmu_in.relationships, <<>>)
                   \o ViolationsOf(<<>>, <<>>, harm)

C7_Witness ==
    /\ Called
    /\ Len(slmu_in.ethical_matches.harm_patterns) = 2
    /\ slmu_in.ethical_matches.harm_patterns[1] # slmu_in.ethical_matches.harm_patterns[2]
    /\ \E k \in 1..Len(slmu_out.violations) :
          slmu_out.violations[k].type = "prohibited_concept_lemma"
    /\ \E k \in 1..Len(slmu_out.violations) :
          slmu_out.violations[k].type = "prohibited_relationship"
    /\ slmu_out.violations[Len(slmu_out.violations)].type = "harm_pattern_detected"

\* C8: two calls that differ only in raw text, emotion scores, emotion thresholds,
\* required virtues, command-pattern matches or ethical-pattern matches return the
\* same 'compliant' flag and the same violations list.
C8_DecisionIgnoresTextEmotionsVirtues ==
    slmu_prev # NoCall =>
        /\ slmu_out.compliant = slmu_prev.compliant
        /\ slmu_out.violations = slmu_prev.violations

C8_Witness ==
    /\ slmu_prev # NoCall
    /\ slmu_prev.warnings = <<>>
    /\ slmu_prev.required_values_present = <<>>
    /\ Len(slmu_out.warnings) = 2
    /\ slmu_out.required_values_present # <<>>
    /\ slmu_out.ethical_patterns_found # slmu_prev.ethical_patterns_found
    /\ slmu_out.compliant

\* C27: a required virtue is listed in required_values_present if and only if
\* the lowercased virtue appears in the lowercased raw text or equals, without
\* regard to case, the name or the lemma of some concept
C27_VirtuePresentIffTextOrEqualConcept ==
    (Called /\ ~slmu_out.raised) =>
        \A k \in 1..Len(slmu_in.rules.required_virtues) :
          LET virtue == slmu_in.rules.required_virtues[k]
              listed == \E j \in 1..Len(slmu_out.required_values_present) :
                           slmu_out.required_values_present[j] = virtue
          IN  listed <=>
                \/ Contains(Lower(slmu_in.text), Lower(virtue))
                \/ \E i \in 1..Len(slmu_in.concepts) :
                      \/ Lower(slmu_in.concepts[i].name) = Lower(virtue)
                      \/ Lower(slmu_in.concepts[i].lemma) = Lower(virtue)

\* the emotion_threshold_exceeded warnings of the result that name the emotion
EmotionWarnings(emotion) ==
    { j \in 1..Len(slmu_out.warnings) :
        /\ slmu_out.warnings[j].type = "emotion_threshold_exceeded"
        /\ slmu_out.warnings[j].emotion = emotion }

\* C28: the result holds exactly one emotion_threshold_exceeded warning, of
\* severity medium, for each configured emotion whose score in the distribution is
\* strictly greater than its threshold, and none for an emotion whose score equals
\* the threshold or that has no score, nor when no emotion scores or no threshold
\* configuration are supplied
C28_OneWarningPerExceededThreshold ==
    (Called /\ ~slmu_out.raised) =>
        LET emotions == slmu_in.emotions
            supplied == emotions.kind = "dict" /\ emotions.keys # {}
            configured == IF slmu_in.rules.has_emotion_validation
                          THEN slmu_in.rules.warning_thresholds ELSE <<>>
        IN  /\ \A k \in 1..Len(configured) :
                 LET emotion == configured[k][1]
                     above == /\ supplied
                              /\ emotion \in DOMAIN emotions.all_scores
                              /\ ~RLe(emotions.all_scores[emotion], configured[k][2])
                 IN  /\ Cardinality(EmotionWarnings(emotion)) = (IF above THEN 1 ELSE 0)
                     /\ \A j \in EmotionWarnings(emotion) :
                          slmu_out.warnings[j].severity = "medium"
            /\ \A j \in 1..Len(slmu_out.warnings) :
                 slmu_out.warnings[j].type = "emotion_threshold_exceeded" =>
                   \E k \in 1..Len(configured) :
                      configured[k][1] = slmu_out.warnings[j].emotion

\* one call with a score above, a score at and no score for a configured emotion
C28_Witness ==
    /\ Called
    /\ ~slmu_out.raised
    /\ Len(slmu_in.rules.warning_thresholds) = 3
    /\ Cardinality(EmotionWarnings("anger")) = 1
    /\ slmu_in.emotions.all_scores["fear"] = slmu_in.rules.warning_thresholds[2][2]
    /\ EmotionWarnings("fear") = {}
    /\ EmotionWarnings("sadness") = {}

----------------------------------------------------------------------------
(* Claims about CorpusCallosum *)

Fused == fuse_out # NoCall /\ ~fuse_out.raised

\* the compliance check on the inputs of the fuse call
FuseCompliance ==
    check_compliance_enhanced(
        fuse_in.prismo_output.text, fuse_in.prismo_output.concepts,
        fuse_in.prismo_output.relationships, fuse_in.prismo_output.ethical_patterns,
        IF fuse_in.chroma_output.sentiment.kind = "missing" THEN NoEmotions
        ELSE fuse_in.chroma_output.sentiment,
        slmu_rules)

InCalls(name) == \E k \in 1..Len(fuse_out.calls) : fuse_out.calls[k] = name

\* C2: fuse returns success=true exactly when the compliance check on its inputs
\* is compliant; when non-compliant it returns success=false, reason 'Ethical
\* violation', coherence exactly 0.0 and details holding the (non-empty) violations
\* and the warnings, and _calculate_coherence is not executed for that call.
C2_GateShortCircuits ==
    Fused =>
        /\ fuse_out.success <=> FuseCompliance.compliant
        /\ ~FuseCompliance.compliant =>
              /\ fuse_out.success = FALSE
              /\ fuse_out.reason = "Ethical violation"
              /\ fuse_out.coherence = Zero
              /\ fuse_out.details.violations = FuseCompliance.violations
              /\ fuse_out.details.violations # <<>>
              /\ fuse_out.details.warnings = FuseCompliance.warnings
              /\ DOMAIN fuse_out.details = {"violations", "warnings"}
              /\ ~InCalls("_calculate_coherence")
        /\ fuse_out.success => InCalls("_calculate_coherence")

C2_Witness ==
    /\ Fused
    /\ ~fuse_out.success
    /\ fuse_out.details.violations # <<>>
    /\ fuse_out.details.warnings # <<>>
    /\ fuse_out.calls = <<"check_compliance_enhanced">>
    /\ n_updates > 0

\* C9: the coherence returned by a successful fuse is within [0,1], for any
\* sentiment confidence, token count, part-of-speech count, concept count, entity
\* count and logging flag, under the default weights and under any weights
\* produced by update_weights.
C9_CoherenceInUnitInterval ==
    (Fused /\ fuse_out.success) =>
        RLe(Zero, fuse_out.coherence) /\ RLe(fuse_out.coherence, One)

\* the unclipped weighted mean leaves [0,1] on this call
C9_Witness ==
    /\ Fused
    /\ fuse_out.success
    /\ n_updates > 0
    /\ fuse_in.chroma_output.sentiment.kind = "dict"
    /\ fuse_in.chroma_output.sentiment.score = Rat(2, 1)
    /\ fuse_in.prismo_output.linguistic_features.token_count = 100
    /\ fuse_in.anchor_output.interaction_logged
    /\ fuse_out.coherence = One

C11_WeightsWithinClipBounds ==
    \A i \in 1..Len(Triads) :
      LET triad == Triads[i] IN
        RLe(weight_floor, weights[triad]) /\ RLe(weights[triad], weight_cap)

\* C12: after every update_weights call, whatever the feedback mapping, the three
\* weights sum to 1
C12_WeightsSumToOne ==
    n_updates > 0 => total_weight(weights) = One

\* the renormalization moved every weight, one of them past the clip bound
C12_Witness ==
    /\ n_updates > 0
    /\ total_weight(weights) = One
    /\ \A i \in 1..Len(Triads) : weights[Triads[i]] # default_weights[Triads[i]]
    /\ \E i \in 1..Len(Triads) : RLt(weight_cap, weights[Triads[i]])

\* C21: for any triad outputs, basic-mode shapes included (scalar sentiment,
\* concepts given as plain strings, no text, relationships or pattern matches) and
\* with or without emotion thresholds in the rule set, fuse returns a structured
\* result with success true or false, and never raises
C21_FuseNeverRaises ==
    fuse_out # NoCall =>
        /\ ~fuse_out.raised
        /\ fuse_out.success \in BOOLEAN

----------------------------------------------------------------------------
(* Claims about the request pipeline *)

Posted == request # None /\ request.method = "POST /process"

\* the text contains one of the prohibited concepts of the rules in force
HasProhibited(text) ==
    \E k \in 1..Len(slmu_rules.prohibited_concepts) :
        InText(text, Lower(slmu_rules.prohibited_concepts[k]))

\* C3: process_input calls Soul.update for a request only after fuse returned
\* success = true for that request: a POST /process step whose fusion raised or
\* was rejected leaves the soul collection and its file as they were
C3_SoulUpdatedOnlyAfterSuccess ==
    [][ (n_requests' # n_requests /\ request'.method = "POST /process"
           /\ (fused'.raised \/ ~fused'.success))
          => (souls' = souls /\ soul_file' = soul_file) ]_vars

\* a request that did not pass the fusion left its user without a soul, while
\* another user's soul was updated by a request that passed
C3_Witness ==
    /\ Posted
    /\ fused.raised
    /\ response.status = 500
    /\ request.user_id \notin DOMAIN souls
    /\ \E u \in DOMAIN souls : souls[u].interaction_count = 1

\* C4: a POST /process whose text contains a prohibited concept is rejected:
\* fuse yields success = false with coherence 0.0 and the endpoint answers 400
C4_ProhibitedTextRejected ==
    (Posted /\ slmu_rules = get_default_rules /\ HasProhibited(request.text)) =>
        /\ ~fused.raised
        /\ ~fused.success
        /\ fused.coherence = Zero
        /\ response.status = 400

\* C5: a POST /process with non-empty text that contains no prohibited concept
\* ends with status 200, success = true and a coherence within [0, 1]
C5_CleanTextSucceeds ==
    (Posted /\ slmu_rules = get_default_rules /\ ~HasProhibited(request.text)) =>
        /\ response.status = 200
        /\ response.success
        /\ RLe(Zero, response.coherence) /\ RLe(response.coherence, One)

\* C23: PrismoTriad.process returns compliant = false for every text that
\* contains a prohibited concept and compliant = true for every text that
\* contains none, in whatever order the extracted concepts are judged
C23_PrismoCompliantIffNoProhibited ==
    Posted =>
        \A concepts \in Orders(TextConcepts[request.text]) :
            prismo_process(concepts, request.user_id, slmu_rules, {}, TRUE).out.compliant
              <=> ~HasProhibited(request.text)

C30_LoggingScoreAlwaysFull ==
    (Posted /\ ~fused.raised /\ fused.success) =>
        LET chroma == [ sentiment |-> fused.sentiment ]
            prismo == [ linguistic_features |-> fused.linguistic_features,
                        concept_count |-> fused.triad_outputs.prismo_concept_count,
                        entity_count |-> fused.triad_outputs.prismo_entity_count ]
            full == RDiv(RAdd(RAdd(RMul(sentiment_score(chroma), weights.chroma),
                                   RMul(prismo_score(prismo), weights.prismo)),
                              RMul(One, weights.anchor)),
                         total_weight(weights))
        IN  /\ fused.coherence = Clip(full, Zero, One)
            /\ \A writable \in BOOLEAN :
                 anchor_process(request.text, request.user_id, None,
                                interaction_log, writable).out.interaction_logged

\* a request passed the fusion with the full logging score although its line
\* never reached the log file
C30_Witness ==
    /\ n_requests = 1
    /\ Posted
    /\ ~fused.raised
    /\ fused.success
    /\ interaction_log = <<>>
    /\ fused.coherence = Rat(29, 50)

----------------------------------------------------------------------------
(* Claims about Soul *)

SoulCall(method) == n_requests' = n_requests + 1 /\ request'.method = method

\* C13: get_or_create on an absent user_id creates a record whose vector has 7
\* components and Euclidean norm 1, with alignment_score 0.5, interaction_count 0
\* and empty preferences
C13_CreatedWithUnitVector ==
    [][ (SoulCall("Soul.get_or_create") /\ request'.user_id \notin DOMAIN souls) =>
          LET created == souls'[request'.user_id]
              vector == vector_value(created.vector)
          IN  /\ Len(vector) = SoulDim
              /\ dot(vector, vector) = One
              /\ created.alignment_score = Half
              /\ created.interaction_count = 0
              /\ created.preferences = <<>> ]_vars

\* C14: starting from a user with no soul, every Soul.update for that user raises
\* interaction_count by exactly 1 (to 1 on the update that creates the record) and
\* sets alignment_score to clamp01(0.9 * old + 0.1 * coherence), with 0.5 as the
\* old score of a new record; no other call changes either field, so the count is
\* the number of updates, and alignment_score stays within [0, 1] in every state
C14_UpdateCountsAndAverages ==
    /\ [](\A u \in DOMAIN souls :
            /\ RLe(Zero, souls[u].alignment_score)
            /\ RLe(souls[u].alignment_score, One)
            /\ souls[u].interaction_count >= 0)
    /\ [][ \A u \in DOMAIN souls' :
             LET old_count == IF u \in DOMAIN souls THEN souls[u].interaction_count ELSE 0
                 old_alignment ==
                     IF u \in DOMAIN souls THEN souls[u].alignment_score ELSE Rat(1, 2)
             IN  IF SoulCall("Soul.update") /\ request'.user_id = u
                 THEN /\ souls'[u].interaction_count = old_count + 1
                      /\ souls'[u].alignment_score =
                            LET blended == RAdd(RMul(Rat(9, 10), old_alignment),
                                                RMul(Rat(1, 10), request'.coherence))
                            IN  IF RLt(blended, Zero) THEN Zero
                                ELSE IF RLt(One, blended) THEN One ELSE blended
                 ELSE /\ souls'[u].interaction_count = old_count
                      /\ souls'[u].alignment_score = old_alignment ]_vars

\* two updates in a row for one user who had no soul, the second moving the score
C14_Witness ==
    /\ n_requests = 2
    /\ request.method = "Soul.update"
    /\ souls[request.user_id].interaction_count = 2
    /\ souls[request.user_id].alignment_score = Rat(119, 200)
    /\ request.coherence = One

\* C15: get_or_create for a user_id that has a record returns that record and
\* leaves the store as it was: no record is added, and vector, alignment_score,
\* interaction_count and preferences of every record are unchanged; a second call
\* right after a first one for the same user_id returns what the first returned
C15_GetOrCreateIdempotent ==
    [][ (SoulCall("Soul.get_or_create") /\ request'.user_id \in DOMAIN souls) =>
          /\ response' = souls[request'.user_id]
          /\ Cardinality(DOMAIN souls') = Cardinality(DOMAIN souls)
          /\ \A u \in DOMAIN souls :
               /\ u \in DOMAIN souls'
               /\ souls'[u].vector = souls[u].vector
               /\ souls'[u].alignment_score = souls[u].alignment_score
               /\ souls'[u].interaction_count = souls[u].interaction_count
               /\ souls'[u].preferences = souls[u].preferences
          /\ (request = request' => response' = response) ]_vars

\* get_or_create called twice for one new user
C15_Witness ==
    /\ n_requests = 2
    /\ request.method = "Soul.get_or_create"
    /\ DOMAIN souls = { request.user_id }
    /\ souls[request.user_id].interaction_count = 0
    /\ response = souls[request.user_id]

\* C16: after Soul.update with an input vector for which 0.9 * old_vector +
\* 0.1 * new_vector is a vector of numbers other than the zero vector, the stored
\* vector has Euclidean norm 1 and is that blend divided by its norm: it points
\* the way the blend points, and each component squared times the squared norm of
\* the blend is the square of the blend's component
C16_UpdateStoresNormalizedBlend ==
    [][ SoulCall("Soul.update") =>
          \A u \in { request'.user_id } :
          \A old_vector \in { IF u \in DOMAIN souls THEN vector_value(souls[u].vector)
                              ELSE random_sample(random_draw(rng)) } :
          \A blend \in { [ i \in 1..SoulDim |->
                             FAdd(FMul(Rat(9, 10), old_vector[i]),
                                  FMul(Rat(1, 10), request'.chroma_vector[i])) ] } :
              ( /\ AllFinite(old_vector)
                /\ AllFinite(request'.chroma_vector)
                /\ \E i \in 1..SoulDim : blend[i] # Zero ) =>
                   \A stored \in { vector_value(souls'[u].vector) } :
                   \A norm2 \in { dot(blend, blend) } :
                   /\ Len(stored) = SoulDim
                   /\ AllFinite(stored)
                   /\ dot(stored, stored) = One
                   /\ \A i \in 1..SoulDim :
                        /\ RLt(Zero, stored[i]) <=> RLt(Zero, blend[i])
                        /\ RLt(stored[i], Zero) <=> RLt(blend[i], Zero)
                        /\ RMul(RMul(stored[i], stored[i]), norm2)
                             = RMul(blend[i], blend[i]) ]_vars

\* a second update, with a vector that turns a unit vector towards a new axis
C16_Witness ==
    /\ n_requests = 2
    /\ request.method = "Soul.update"
    /\ souls[request.user_id].interaction_count = 2
    /\ request.chroma_vector[5] = Rat(12, 1)
    /\ vector_value(souls[request.user_id].vector)[5] = Rat(4, 5)
    /\ vector_value(souls[request.user_id].vector)[1] = Rat(9, 25)


\* C22: whether or not the write in Soul._save succeeds, get_or_create, update
\* and set_preference complete and the in-memory collection holds the mutated
\* record, which get_or_create and update return; the persisted collection is
\* the in-memory one after a successful write and otherwise stays at the last
\* successfully written one
C22_FailedSaveKeepsLastWrittenState ==
    [][ n_requests' = n_requests + 1 =>
          /\ request'.user_id \in DOMAIN souls'
          /\ request'.method # "Soul.set_preference" =>
                response' = souls'[request'.user_id]
          /\ request'.method = "Soul.set_preference" =>
                souls'[request'.user_id].preferences[request'.key] = request'.value
          /\ soul_file' = souls' \/ soul_file' = soul_file ]_vars

----------------------------------------------------------------------------
(* Claims about the soul over HTTP *)

\* a GET /soul/{user_id} has been answered, and the next request is a POST /process
\* of the same user that succeeds
ReadThenSuccessfulPost ==
    /\ request # None
    /\ request.method = "GET /soul"
    /\ n_requests' = n_requests + 1
    /\ request'.method = "POST /process"
    /\ request'.user_id = request.user_id
    /\ response'.status = 200

\* the interaction_count that GET /soul/{user_id} would return next
NextRead(user_id) ==
    get_or_create(souls', soul_file', rng', user_id, TRUE).souls[user_id].interaction_count

----------------------------------------------------------------------------
(* Claims about SimpleVectorStore *)

StoreCall(method) == vars' # vars /\ request'.method = method

\* C18: upsert(id, v, m) stores exactly v and m under id, whatever was there, so
\* that a get(id) right after it returns the record of id, v and m; the count
\* stays on an existing id and grows by 1 on a new one, and no other id's record
\* changes
C18_UpsertThenGet ==
    [][ /\ StoreCall("upsert") =>
             LET id == request'.id IN
               /\ get(vector_store', id) =
                     [ id |-> id, vector |-> request'.vector,
                       metadata |-> request'.metadata ]
               /\ Cardinality(DOMAIN vector_store') =
                     Cardinality(DOMAIN vector_store)
                       + (IF id \in DOMAIN vector_store THEN 0 ELSE 1)
               /\ \A other \in DOMAIN vector_store \ {id} :
                     /\ other \in DOMAIN vector_store'
                     /\ vector_store'[other] = vector_store[other]
        /\ ( /\ request # None
             /\ request.method = "upsert"
             /\ StoreCall("get")
             /\ request'.id = request.id ) =>
               response' = [ id |-> request.id, vector |-> request.vector,
                             metadata |-> request.metadata ] ]_vars

\* get after an upsert that replaced both the vector and the metadata of the only
\* id: the file, which that upsert could not write, still holds the old ones
C18_Witness ==
    /\ n_requests = 2
    /\ request.method = "get"
    /\ DOMAIN vector_store = { request.id }
    /\ response = [ id |-> request.id, vector |-> <<Rat(3, 1), Rat(4, 1)>>,
                    metadata |-> [ user_id |-> "bob" ] ]
    /\ DOMAIN vector_file = { request.id }
    /\ vector_file[request.id].vector # response.vector
    /\ vector_file[request.id].metadata # response.metadata

\* C19: search(q, k) returns min(k, count()) results, none for an empty store,
\* ordered by non-increasing cosine similarity to q, each with the id and the
\* current metadata of a stored record; when a stored vector is identical to q,
\* the top result is such a vector with similarity 1; the store is unchanged
C19_SearchRanksBySimilarity ==
    [][ StoreCall("search") =>
          LET results == response'.results
              q == request'.query_vector
              total == Cardinality(DOMAIN vector_store)
          IN  /\ Len(results) = (IF request'.k < total THEN request'.k ELSE total)
              /\ \A i \in 1..Len(results) :
                   /\ results[i].id \in DOMAIN vector_store
                   /\ results[i].metadata = vector_store[results[i].id].metadata
              /\ \A i \in 1..Len(results), j \in 1..Len(results) :
                   i < j =>
                     /\ Finite(results[i].similarity)
                     /\ Finite(results[j].similarity)
                     /\ RLe(results[j].similarity, results[i].similarity)
              /\ (\E id \in DOMAIN vector_store : vector_store[id].vector = q) =>
                   /\ results[1].similarity = One
                   /\ vector_store[results[1].id].vector = q
              /\ vector_store' = vector_store
              /\ vector_file' = vector_file ]_vars

\* C20: when the query vector or a stored vector has zero norm, search returns a
\* list without the entries whose similarity is undefined: every similarity it
\* returns is a number within [-1, 1]
C20_SearchSkipsZeroNorm ==
    [][ StoreCall("search") =>
          LET results == response'.results
              zero_norm(v) == \A i \in 1..Len(v) : v[i] = Zero
          IN  \A i \in 1..Len(results) :
                /\ ~zero_norm(request'.query_vector)
                /\ ~zero_norm(vector_store[results[i].id].vector)
                /\ Finite(results[i].similarity)
                /\ RLe(Rat(-1, 1), results[i].similarity)
                /\ RLe(results[i].similarity, One) ]_vars

----------------------------------------------------------------------------
(* Claims about the sleep cycle *)

SleepStep == sleep_run' # sleep_run

----------------------------------------------------------------------------
(* Claims about Soul.update in two threads *)

AllReturned == \A t \in Threads : threads[t].pc = "returned"

SameUser == threads["t1"].user_id = threads["t2"].user_id

\* the calls for user_id that have stored their interaction count
Counted(user_id) ==
    { t \in Threads : /\ threads[t].user_id = user_id
                      /\ threads[t].then = "returned"
                      /\ threads[t].pc \in { "dump", "write", "returned" } }

\* the alignment score after one update of a score
Blend(alignment_score, coherence) ==
    Clip(RAdd(RMul(ema_keep, alignment_score), RMul(ema_new, coherence)), Zero, One)

\* C24: no soul counts more interactions than updates have counted for it, and
\* once two updates of one user have returned, its soul holds the effect of one
\* of them or of both: a count of 1 or 2, the vector and the alignment score
\* of one update of the new soul or of two in a row
C24_UnlockedUpdateLosesAtMostOne ==
    /\ \A u \in DOMAIN souls : souls[u].interaction_count <= Cardinality(Counted(u))
    /\ AllReturned /\ SameUser =>
         LET soul == souls[threads["t1"].user_id]
             one == threads["t1"]
             two == threads["t2"]
         IN  /\ soul.interaction_count \in { 1, 2 }
             /\ soul.vector.blended \in
                  { <<one.chroma_vector>>, <<two.chroma_vector>>,
                    <<one.chroma_vector, two.chroma_vector>>,
                    <<two.chroma_vector, one.chroma_vector>> }
             /\ soul.alignment_score \in
                  { Blend(Half, one.coherence), Blend(Half, two.coherence),
                    Blend(Blend(Half, one.coherence), two.coherence),
                    Blend(Blend(Half, two.coherence), one.coherence) }

\* two updates of one user have returned, and its soul counts one interaction
\* and holds the alignment score of the second update of a new soul
C24_Witness ==
    /\ AllReturned /\ SameUser
    /\ threads["t1"].coherence = Zero /\ threads["t2"].coherence = One
    /\ souls[threads["t1"].user_id].interaction_count = 1
    /\ souls[threads["t1"].user_id].alignment_score = Blend(Half, One)

\* C25: once two updates of different users have returned, each user's soul is
\* the one its update alone makes of a new soul, and when no write failed the
\* file holds both of them
C25_DifferentUsersAreIndependent ==
    AllReturned /\ ~SameUser =>
        /\ \A t \in Threads :
             LET soul == souls[threads[t].user_id]
             IN  /\ soul.interaction_count = 1
                 /\ soul.vector.blended = <<threads[t].chroma_vector>>
                 /\ soul.alignment_score = Blend(Half, threads[t].coherence)
        /\ (\A t \in Threads : ~threads[t].failed) =>
             \A t \in Threads :
                 /\ threads[t].user_id \in DOMAIN soul_file
                 /\ soul_file[threads[t].user_id] = souls[threads[t].user_id]

============================================================================
